---- MODULE Spec2Model ----
(***************************************************************************)
(* Model of the pydici request handlers and helpers that carry the         *)
(* billing, timesheet, staffing and expense rules:                         *)
(*   billing/utils.py   compute_bill                                       *)
(*   staffing/views.py  check_user_timesheet_access, consultant_timesheet, *)
(*                      mission_staffing, consultant_staffing              *)
(*   expense/views.py   update_expense_state                               *)
(* Each view is one action; the authenticated user (request.user) is the   *)
(* state variable user, changed by Login.                                  *)
(***************************************************************************)
EXTENDS Integers, Sequences, FiniteSets, TLC

VARIABLES
    today,      \* date.today(), a date record
    user,       \* request.user: [username, perms, features, roles]
    accReq,     \* last direct evaluation of check_user_timesheet_access
    timesheet,  \* Timesheet rows: set of [consultant, month, charge]
    tsResp,     \* outcome of the last consultant_timesheet request
    staffing,   \* Staffing rows: set of [mission, consultant, charge]
    cache,      \* django cache: set of <<key prefix, mission id>> entries
    stResp,     \* outcome of the last mission_staffing / consultant_staffing request
    expenses,   \* Expense rows: id -> [user, state, amount, workflow_in_progress,
                \*                      update_date, editors]
    exResp,     \* outcome of the last update_expense_state request
    evResp,     \* outcome of the last expenses request
    bill,       \* the ClientBill: [state, amount, amount_with_vat, vat]
    billArg,    \* the bill as it was handed to the last compute_bill call
    details,    \* its BillDetail rows: sequence of [amount, amount_with_vat]
    billExpenses, \* its BillExpense rows: sequence of [amount, amount_with_vat]
    csvResp,    \* the last CSV export: [view, rows, content]
    HAVE_SCIKIT, \* people/learn.py: whether scikit could be imported
    simConsultants, \* ids of the active, productive, non-subcontractor consultants
    simCache,   \* django cache, similarity keys: key -> [value, timeout]
    simResp,    \* outcome of the last compute_consultant_similarity call
    reportArg,  \* the data and parameters of the last report request
    reportResp, \* what the last report request handed to its template
    staffingRows, \* Staffing rows as mass_staffing sees them: sequence of [mission,
                \*   consultant, staffing_date, charge, comment, update_date, last_user]
    massResp,   \* outcome of the last mass_staffing request
    clientBills, \* ClientBill rows: sequence of [lead, state, amount, amount_with_vat, vat]
    billDetails, \* BillDetail rows: sequence of [bill, mission, month, consultant,
                \*   quantity, unit_price, amount, amount_with_vat]
    createResp  \* outcome of the last create_client_bill_from_timesheet call

vars == <<today, user, accReq, timesheet, tsResp, staffing, cache, stResp,
          expenses, exResp, evResp, bill, billArg, details, billExpenses, csvResp,
          HAVE_SCIKIT, simConsultants, simCache, simResp, reportArg, reportResp,
          staffingRows, massResp, clientBills, billDetails, createResp>>

timesheetVars == <<accReq, timesheet, tsResp>>
staffingVars == <<staffing, cache, stResp>>
expenseVars == <<expenses, exResp, evResp>>
billingVars == <<bill, billArg, details, billExpenses>>
learnVars == <<HAVE_SCIKIT, simConsultants, simCache, simResp>>
reportVars == <<reportArg, reportResp>>
massVars == <<staffingRows, massResp>>
createVars == <<clientBills, billDetails, createResp>>
otherVars == <<csvResp, learnVars, reportVars, massVars, createVars>>

(***************************************************************************)
(* Optional values: Python None is the empty sequence, a value v is <<v>>. *)
(***************************************************************************)
None == <<>>
Some(v) == <<v>>

\* min(S) of a set of numbers
MinOf(S) == CHOOSE x \in S : \A y \in S : x <= y

\* Python truth value of an optional number
Truthy(x) == x # None /\ x[1] # 0

(***************************************************************************)
(* datetime.date arithmetic (proleptic Gregorian calendar).                *)
(***************************************************************************)
IsLeap(y) == (y % 4 = 0 /\ y % 100 # 0) \/ y % 400 = 0

DaysInMonth(y, m) ==
    CASE m \in {4, 6, 9, 11} -> 30
      [] m = 2 -> IF IsLeap(y) THEN 29 ELSE 28
      [] OTHER -> 31

DaysInYear(y) == IF IsLeap(y) THEN 366 ELSE 365

MkDate(y, m, d) == [year |-> y, month |-> m, day |-> d]

\* First day the calendar counts from (ordinal 0).
Epoch == MkDate(2023, 1, 1)

RECURSIVE DaysBeforeYear(_)
DaysBeforeYear(y) ==
    IF y <= Epoch.year THEN 0 ELSE DaysBeforeYear(y - 1) + DaysInYear(y - 1)

RECURSIVE DaysBeforeMonth(_, _)
DaysBeforeMonth(y, m) ==
    IF m <= 1 THEN 0 ELSE DaysBeforeMonth(y, m - 1) + DaysInMonth(y, m - 1)

\* date.toordinal(), counted from Epoch
toordinal(d) == DaysBeforeYear(d.year) + DaysBeforeMonth(d.year, d.month) + (d.day - 1)

RECURSIVE OrdToDate(_, _, _)
OrdToDate(n, y, m) ==
    IF n >= DaysInYear(y) /\ m = 1 THEN OrdToDate(n - DaysInYear(y), y + 1, 1)
    ELSE IF n >= DaysInMonth(y, m) THEN OrdToDate(n - DaysInMonth(y, m), y, m + 1)
    ELSE MkDate(y, m, n + 1)

\* date.fromordinal()
fromordinal(n) == OrdToDate(n, Epoch.year, 1)

\* date + timedelta(days=n)
AddDays(d, n) == fromordinal(toordinal(d) + n)

\* (a - b).days
DaysBetween(a, b) == toordinal(a) - toordinal(b)

\* date.replace(day=1)
ReplaceDay1(d) == [d EXCEPT !.day = 1]

\* a >= b on dates
DateGE(a, b) == toordinal(a) >= toordinal(b)

(***************************************************************************)
(* Strings are sequences of characters; str.upper() maps each character.   *)
(***************************************************************************)
UpperChar(c) ==
    CASE c = "a" -> "A"
      [] c = "b" -> "B"
      [] c = "c" -> "C"
      [] OTHER -> c

upper(s) == [i \in DOMAIN s |-> UpperChar(s[i])]

(***************************************************************************)
(* People: the Consultant table.                                           *)
(***************************************************************************)
Consultants ==
    { [id |-> 1, trigramme |-> <<"A", "B">>, subcontractor |-> FALSE, staffing_manager |-> 1],
      [id |-> 2, trigramme |-> <<"B", "A">>, subcontractor |-> FALSE, staffing_manager |-> 1],
      [id |-> 3, trigramme |-> <<"C", "A">>, subcontractor |-> TRUE,  staffing_manager |-> 3],
      [id |-> 4, trigramme |-> <<"C", "B">>, subcontractor |-> TRUE,  staffing_manager |-> 3] }

ConsultantIds == {c.id : c \in Consultants}

ConsultantById(i) == CHOOSE c \in Consultants : c.id = i

\* Ids a URL may carry: those of the table and one that matches no row
RequestedConsultantIds == ConsultantIds \cup {0}

\* Consultant.objects.get(trigramme=t): the matching rows (empty: DoesNotExist)
ConsultantsByTrigramme(t) == {c \in Consultants : c.trigramme = t}

\* Consultant.team(): the consultants this one manages
team(c) == {x \in Consultants : x.staffing_manager = c.id /\ x.id # c.id}

TimesheetPerms == {"staffing.add_timesheet", "staffing.change_timesheet", "staffing.delete_timesheet"}
StaffingPerms == {"staffing.add_staffing", "staffing.change_staffing", "staffing.delete_staffing"}

has_perm(u, p) == p \in u.perms

user_has_feature(u, f) == f \in u.features

Usernames == { <<"a", "b">>, <<"B", "a">>, <<"c", "a">>, <<"c", "c">> }

TimesheetFeatures == {"timesheet_subcontractor", "timesheet_all", "timesheet_current_month"}

(***************************************************************************)
(* staffing/views.py: check_user_timesheet_access                          *)
(***************************************************************************)
TIMESHEET_ACCESS_NOT_ALLOWED == "N"
TIMESHEET_ACCESS_READ_ONLY == "RO"
TIMESHEET_ACCESS_READ_WRITE == "RW"

\* Number of days after the end of a month during which it stays editable.
LateEditDays == 3

current_month_of(day) == ReplaceDay1(day)

timesheet_next_month(timesheet_month) == ReplaceDay1(AddDays(timesheet_month, 40))

ontime_editing(day, timesheet_month) ==
    \/ current_month_of(day) = timesheet_month
    \/ DaysBetween(day, timesheet_next_month(timesheet_month)) <= LateEditDays

has_all_timesheet_perms(u) ==
    /\ has_perm(u, "staffing.add_timesheet")
    /\ has_perm(u, "staffing.change_timesheet")
    /\ has_perm(u, "staffing.delete_timesheet")

\* Lines 84-90: own timesheet or timesheet of the user's team
OwnOrTeamAccess(day, timesheet_month) ==
    IF ontime_editing(day, timesheet_month)
    THEN TIMESHEET_ACCESS_READ_WRITE
    ELSE TIMESHEET_ACCESS_READ_ONLY

\* Lines 92-112: the user is accessing the timesheet of another user
OtherUserAccess_SubcontractorLast(u, user_consultant, consultant, day, timesheet_month) ==
    IF consultant.subcontractor /\ user_has_feature(u, "timesheet_subcontractor")
    THEN OwnOrTeamAccess(day, timesheet_month)
    ELSE IF user_has_feature(u, "timesheet_all") THEN TIMESHEET_ACCESS_READ_ONLY
    ELSE IF user_has_feature(u, "timesheet_current_month")
         THEN IF DateGE(timesheet_month, current_month_of(day))
              THEN TIMESHEET_ACCESS_READ_ONLY
              ELSE TIMESHEET_ACCESS_NOT_ALLOWED
    ELSE IF user_consultant.subcontractor THEN TIMESHEET_ACCESS_NOT_ALLOWED
    ELSE TIMESHEET_ACCESS_NOT_ALLOWED

OtherUserAccess_NoMonthCheck(u, user_consultant, consultant, day, timesheet_month) ==
    IF user_consultant.subcontractor THEN TIMESHEET_ACCESS_NOT_ALLOWED
    ELSE IF consultant.subcontractor /\ user_has_feature(u, "timesheet_subcontractor")
    THEN OwnOrTeamAccess(day, timesheet_month)
    ELSE IF user_has_feature(u, "timesheet_all") THEN TIMESHEET_ACCESS_READ_ONLY
    ELSE IF user_has_feature(u, "timesheet_current_month") THEN TIMESHEET_ACCESS_READ_ONLY
    ELSE TIMESHEET_ACCESS_NOT_ALLOWED

OtherUserAccess(u, user_consultant, consultant, day, timesheet_month) ==
    IF user_consultant.subcontractor THEN TIMESHEET_ACCESS_NOT_ALLOWED
    ELSE IF consultant.subcontractor /\ user_has_feature(u, "timesheet_subcontractor")
    THEN OwnOrTeamAccess(day, timesheet_month)
    ELSE IF user_has_feature(u, "timesheet_all") THEN TIMESHEET_ACCESS_READ_ONLY
    ELSE IF user_has_feature(u, "timesheet_current_month")
         THEN IF DateGE(timesheet_month, current_month_of(day))
              THEN TIMESHEET_ACCESS_READ_ONLY
              ELSE TIMESHEET_ACCESS_NOT_ALLOWED
    ELSE TIMESHEET_ACCESS_NOT_ALLOWED

check_user_timesheet_access(u, consultant, day, timesheet_month) ==
    IF has_all_timesheet_perms(u) THEN TIMESHEET_ACCESS_READ_WRITE
    ELSE IF ConsultantsByTrigramme(upper(u.username)) = {} THEN TIMESHEET_ACCESS_NOT_ALLOWED
    ELSE LET user_consultant == CHOOSE c \in ConsultantsByTrigramme(upper(u.username)) : TRUE IN
         IF user_consultant.id = consultant.id \/ consultant \in team(user_consultant)
         THEN OwnOrTeamAccess(day, timesheet_month)
         ELSE OtherUserAccess(u, user_consultant, consultant, day, timesheet_month)

(***************************************************************************)
(* Inputs of the timesheet views.                                          *)
(***************************************************************************)
\* First day of the modelled period and number of days it spans.
FirstDay == MkDate(2023, 12, 31)
DaySpan == 5

\* (year, month) pairs a timesheet URL may carry
MonthInputs == { <<2023, 12>>, <<2024, 1>>, <<2024, 2>> }

MonthDate(ym) == MkDate(ym[1], ym[2], 1)

PermVariants(all) == { {}, {p \in all : p # "staffing.delete_timesheet" /\ p # "staffing.delete_staffing"}, all }

MkUser(n, p, f, r) == [username |-> n, perms |-> p, features |-> f, roles |-> r, groups |-> {}]

AccessUsers ==
    { MkUser(n, p, f, {}) : n \in Usernames, p \in PermVariants(TimesheetPerms),
                            f \in SUBSET TimesheetFeatures }

TimesheetUsers ==
    { MkUser(<<"a", "b">>, TimesheetPerms, {}, {}),
      MkUser(<<"a", "b">>, {}, {}, {}),
      MkUser(<<"B", "a">>, {"staffing.add_timesheet", "staffing.change_timesheet"}, {"timesheet_all"}, {}),
      MkUser(<<"B", "a">>, {}, {"timesheet_subcontractor", "timesheet_current_month"}, {}),
      MkUser(<<"c", "a">>, {}, {"timesheet_all"}, {}),
      MkUser(<<"c", "c">>, {"staffing.add_timesheet"}, {"timesheet_all"}, {}) }

NoAccReq == [consultant |-> 0, month |-> Epoch, access |-> "none"]

NoExResp == [message |-> "none", status |-> "none", expense |-> 0, transition |-> 0,
             do_transition |-> "not called"]

NoStResp == [view |-> "none", status |-> "none", method |-> "none", ajax |-> FALSE,
             target |-> 0, read_only |-> FALSE, saved |-> FALSE]

NoEvResp == [status |-> "none", method |-> "none", valid |-> FALSE, expense_id |-> <<>>,
             messages |-> {},
             modify_expense |-> FALSE, created |-> 0,
             user_expenses |-> {}, managed_expenses |-> {}]

NoTsResp == [status |-> "none", access |-> "none", method |-> "none", csv |-> FALSE,
             read_only |-> FALSE, saved |-> FALSE]

\* request.user is whoever is authenticated for the request; the response of
\* the previous request has been consumed
Login(u) ==
    /\ user' = u
    /\ accReq' = NoAccReq
    /\ tsResp' = NoTsResp
    /\ stResp' = NoStResp
    /\ exResp' = NoExResp
    /\ evResp' = NoEvResp
    /\ UNCHANGED <<today, timesheet, staffing, cache, expenses, billingVars, otherVars>>

\* date.today() moves on
Tick ==
    /\ DaysBetween(today, FirstDay) < DaySpan
    /\ today' = AddDays(today, 1)
    /\ accReq' = NoAccReq
    /\ tsResp' = NoTsResp
    /\ evResp' = NoEvResp
    /\ UNCHANGED <<user, timesheet, staffingVars, expenses, exResp, billingVars, otherVars>>

\* check_user_timesheet_access(user, consultant, timesheet_month) evaluated on its own
CheckAccess(consultant_id, ym) ==
    /\ accReq' = [consultant |-> consultant_id, month |-> MonthDate(ym),
                  access |-> check_user_timesheet_access(user, ConsultantById(consultant_id),
                                                         today, MonthDate(ym))]
    /\ UNCHANGED <<today, user, timesheet, tsResp, staffingVars, expenseVars, billingVars, otherVars>>

(***************************************************************************)
(* staffing/views.py: consultant_timesheet (week=None); the values handed  *)
(* to the template that no later request reads are left out.               *)
(***************************************************************************)
\* Largest number of Timesheet rows the model stores.
MaxTimesheets == 1

TimesheetCharges == {0, 1}

TimesheetRequests ==
    { [method |-> "GET", csv |-> FALSE, valid |-> FALSE, charge |-> 0],
      [method |-> "GET", csv |-> TRUE, valid |-> FALSE, charge |-> 0],
      [method |-> "POST", csv |-> TRUE, valid |-> TRUE, charge |-> 1],
      [method |-> "POST", csv |-> FALSE, valid |-> FALSE, charge |-> 0] }
    \cup { [method |-> "POST", csv |-> FALSE, valid |-> TRUE, charge |-> c] : c \in TimesheetCharges }

\* staffing.utils.saveTimesheetData: the consultant's rows of the month become the submitted ones
saveTimesheetData(rows, consultant_id, month, charge) ==
    {r \in rows : ~(r.consultant = consultant_id /\ r.month = month)}
    \cup (IF charge = 0 THEN {}
          ELSE {[consultant |-> consultant_id, month |-> month, charge |-> charge]})

\* Lines 743-760: what the view does with the form once access is granted
TimesheetFormStep_SaveWhenReadOnly(req, readOnly) ==
    IF req.method = "POST" /\ req.valid THEN "save"
    ELSE IF req.method = "POST" /\ readOnly THEN "forbidden"
    ELSE "render"

TimesheetFormStep(req, readOnly) ==
    IF req.method = "POST"
    THEN IF readOnly THEN "forbidden"
         ELSE IF req.valid THEN "save" ELSE "render"
    ELSE "render"

consultant_timesheet(consultant_id, ym, req) ==
    IF consultant_id \notin ConsultantIds
    THEN \* Consultant.objects.get raises DoesNotExist: no response of the view
         /\ tsResp' = [NoTsResp EXCEPT !.status = "error", !.method = req.method, !.csv = req.csv]
         /\ UNCHANGED <<today, user, accReq, timesheet, staffingVars, expenseVars, billingVars, otherVars>>
    ELSE
    \E month \in {IF ym = None THEN ReplaceDay1(today) ELSE MonthDate(ym[1])} :
    \E consultant \in {ConsultantById(consultant_id)} :
    \E access \in {check_user_timesheet_access(user, consultant, today, month)} :
    \E readOnly \in {access = TIMESHEET_ACCESS_READ_ONLY} :
    \E step \in {IF access = TIMESHEET_ACCESS_NOT_ALLOWED THEN "forbidden"
                 ELSE IF req.csv THEN "csv"
                 ELSE TimesheetFormStep(req, readOnly)} :
    \E rows \in {IF step = "save"
                 THEN saveTimesheetData(timesheet, consultant_id, month, req.charge)
                 ELSE timesheet} :
        /\ Cardinality(rows) <= MaxTimesheets
        /\ timesheet' = rows
        /\ tsResp' = [status |-> IF step = "save" THEN "render" ELSE step,
                      access |-> access,
                      method |-> req.method,
                      csv |-> req.csv,
                      read_only |-> readOnly /\ step \in {"render", "save"},
                      saved |-> step = "save"]
        /\ UNCHANGED <<today, user, accReq, staffingVars, expenseVars, billingVars, otherVars>>

(***************************************************************************)
(* Properties of check_user_timesheet_access (SpecAccess).                 *)
(***************************************************************************)
\* The Consultant rows whose trigramme is the upper-cased name of the user
UserConsultants == ConsultantsByTrigramme(upper(user.username))

AccessEvaluated == accReq.access # "none"

LacksTimesheetPerms == ~(TimesheetPerms \subseteq user.perms)

\* The requested consultant is the user's own record or a member of the user's team
RequestIsOwnOrTeam ==
    \E uc \in UserConsultants :
        \/ uc.id = accReq.consultant
        \/ \E x \in Consultants : x.id = accReq.consultant /\ x.staffing_manager = uc.id

\* First day of the month that follows the month of date m
FollowingMonth(m) ==
    IF m.month = 12 THEN MkDate(m.year + 1, 1, 1) ELSE MkDate(m.year, m.month + 1, 1)

\* m1 is an earlier month than m2 (both first days of a month)
EarlierMonth(m1, m2) ==
    m1.year < m2.year \/ (m1.year = m2.year /\ m1.month < m2.month)

IsCurrentMonth(m) == m.year = today.year /\ m.month = today.month

\* Month m is over, and has been for at most n days
EndedAtMostDaysAgo(m, n) ==
    /\ ~EarlierMonth(today, FollowingMonth(m))
    /\ DaysBetween(today, FollowingMonth(m)) <= n

\* C3: a user without the three timesheet permissions who accesses an own or
\* team timesheet gets READ_WRITE exactly when the month is the current month
\* or ended at most 3 days ago, and READ_ONLY for every other month, earlier
\* or later.
C3_OwnTimesheetWritableOnlyOnTime ==
    (AccessEvaluated /\ LacksTimesheetPerms /\ RequestIsOwnOrTeam)
        => accReq.access =
               IF IsCurrentMonth(accReq.month) \/ EndedAtMostDaysAgo(accReq.month, 3)
               THEN TIMESHEET_ACCESS_READ_WRITE
               ELSE TIMESHEET_ACCESS_READ_ONLY

\* The requested consultant is neither the user's record nor in the user's team,
\* and the user's record has the given subcontractor flag
RequestIsOtherFor(sub) ==
    /\ UserConsultants # {}
    /\ \A uc \in UserConsultants :
        /\ uc.subcontractor = sub
        /\ uc.id # accReq.consultant
        /\ ConsultantById(accReq.consultant).staffing_manager # uc.id

\* C4: a user lacking the three timesheet permissions who has no Consultant
\* record, or who is a subcontractor accessing a consultant that is neither
\* themself nor in their team, gets NOT_ALLOWED whatever the features and month.
C4_NoRecordOrSubcontractorNotAllowed ==
    (AccessEvaluated /\ LacksTimesheetPerms
        /\ (UserConsultants = {} \/ RequestIsOtherFor(TRUE)))
        => accReq.access = TIMESHEET_ACCESS_NOT_ALLOWED

C4_Witness ==
    /\ AccessEvaluated /\ LacksTimesheetPerms /\ RequestIsOtherFor(TRUE)
    /\ user.features = TimesheetFeatures
    /\ IsCurrentMonth(accReq.month)
    /\ accReq.access = TIMESHEET_ACCESS_NOT_ALLOWED

\* C5: a non-subcontractor user lacking the three timesheet permissions who
\* accesses a non-subcontractor consultant outside their team gets READ_ONLY
\* with feature timesheet_all; else, with feature timesheet_current_month,
\* READ_ONLY for the current and later months and NOT_ALLOWED for earlier
\* ones; else NOT_ALLOWED; never READ_WRITE.
C5_OtherConsultantNeverWritable ==
    (AccessEvaluated /\ LacksTimesheetPerms /\ RequestIsOtherFor(FALSE)
        /\ ~ConsultantById(accReq.consultant).subcontractor)
        => /\ accReq.access # TIMESHEET_ACCESS_READ_WRITE
           /\ accReq.access =
                IF "timesheet_all" \in user.features THEN TIMESHEET_ACCESS_READ_ONLY
                ELSE IF "timesheet_current_month" \in user.features
                     THEN IF EarlierMonth(accReq.month, today)
                          THEN TIMESHEET_ACCESS_NOT_ALLOWED
                          ELSE TIMESHEET_ACCESS_READ_ONLY
                ELSE TIMESHEET_ACCESS_NOT_ALLOWED

C5_Witness ==
    /\ AccessEvaluated /\ LacksTimesheetPerms /\ RequestIsOtherFor(FALSE)
    /\ ~ConsultantById(accReq.consultant).subcontractor
    /\ user.features = {"timesheet_current_month", "timesheet_subcontractor"}
    /\ EarlierMonth(accReq.month, today)
    /\ accReq.access = TIMESHEET_ACCESS_NOT_ALLOWED

(***************************************************************************)
(* Properties of consultant_timesheet (SpecTimesheet).                     *)
(***************************************************************************)
C6_Forbidden == tsResp.status = "forbidden" /\ ~tsResp.saved

\* C6 as stated: data is saved only with READ_WRITE; with NOT_ALLOWED every
\* request, and with READ_ONLY every POST, is redirected to the forbidden page
\* without saving.
C6_SaveOnlyWhenReadWrite ==
    /\ tsResp.saved => tsResp.access = TIMESHEET_ACCESS_READ_WRITE
    /\ tsResp.access = TIMESHEET_ACCESS_NOT_ALLOWED => C6_Forbidden
    /\ (tsResp.access = TIMESHEET_ACCESS_READ_ONLY /\ tsResp.method = "POST") => C6_Forbidden

C6_ResponseRule ==
    /\ tsResp.saved => tsResp.access = TIMESHEET_ACCESS_READ_WRITE
    /\ tsResp.access = TIMESHEET_ACCESS_NOT_ALLOWED => C6_Forbidden
    /\ (tsResp.access = TIMESHEET_ACCESS_READ_ONLY /\ tsResp.method = "POST")
           => \/ C6_Forbidden
              \/ tsResp.csv /\ tsResp.status = "csv" /\ ~tsResp.saved

\* C6 amended: data is saved only with READ_WRITE; with NOT_ALLOWED every
\* request is redirected to the forbidden page; with READ_ONLY a POST is
\* redirected to the forbidden page unless it carries the csv parameter, which
\* is answered with the CSV export; the Timesheet rows change only in a request
\* that had READ_WRITE access and saved.
C6_SaveOnlyWhenReadWriteOrCsv ==
    /\ []C6_ResponseRule
    /\ [][timesheet' # timesheet
            => /\ tsResp'.saved
               /\ tsResp'.access = TIMESHEET_ACCESS_READ_WRITE
               /\ tsResp'.method = "POST"]_vars

C6_Witness ==
    /\ timesheet # {}
    /\ tsResp.access = TIMESHEET_ACCESS_READ_ONLY
    /\ tsResp.method = "POST"
    /\ ~tsResp.csv
    /\ tsResp.status = "forbidden"

(***************************************************************************)
(* staffing/views.py: mission_staffing and consultant_staffing.  One       *)
(* staffing month is modelled; the admin log entries written by            *)
(* saveFormsetAndLog are left out.                                         *)
(***************************************************************************)
\* Largest number of Staffing rows the model stores.
MaxStaffings == 1

MissionIds == {1, 2}

\* Ids a URL may carry: those of the table and one that matches no row
RequestedMissionIds == MissionIds \cup {0}

StaffingCharges == {1, 2}

\* Consultants the staffing requests are about: the users' own records
StaffedConsultantIds == {c.id : c \in {x \in Consultants : ~x.subcontractor}}

MissionCacheKeys == {"Mission.forecasted_work", "Mission.done_work"}

StaffingUsers ==
    { MkUser(<<"a", "b">>, StaffingPerms, {}, {}),
      MkUser(<<"a", "b">>, {}, {}, {}),
      MkUser(<<"B", "a">>, {"staffing.add_staffing", "staffing.change_staffing"}, {}, {}),
      MkUser(<<"c", "c">>, {"staffing.change_staffing"}, {}, {}) }

\* Rows a submitted formset (or the automatic staffing) holds for a mission
MissionFormRows(m) ==
    { {} } \cup { { [mission |-> m, consultant |-> c, charge |-> k] } :
                    c \in StaffedConsultantIds, k \in StaffingCharges }

\* Rows a submitted formset holds for a consultant
ConsultantFormRows(c) ==
    { {} } \cup { { [mission |-> m, consultant |-> c, charge |-> k] } :
                    m \in MissionIds, k \in StaffingCharges }

StaffingRequests(rowsets) ==
    { [ajax |-> a, method |-> "GET", valid |-> FALSE, rows |-> {}] : a \in BOOLEAN }
    \cup { [ajax |-> a, method |-> "POST", valid |-> FALSE, rows |-> {}] : a \in BOOLEAN }
    \cup { [ajax |-> TRUE, method |-> "POST", valid |-> TRUE, rows |-> r] : r \in rowsets }
    \cup { [ajax |-> FALSE, method |-> "POST", valid |-> TRUE, rows |-> {}] }

has_all_staffing_perms(u) ==
    /\ has_perm(u, "staffing.add_staffing")
    /\ has_perm(u, "staffing.change_staffing")
    /\ has_perm(u, "staffing.delete_staffing")

\* staffing.utils.saveFormsetAndLog on a Mission instance, and
\* compute_automatic_staffing: the rows of the mission become the given ones
saveMissionRows(rows, mission_id, submitted) ==
    {r \in rows : r.mission # mission_id} \cup submitted

\* staffing.utils.saveFormsetAndLog on a Consultant instance
saveConsultantRows(rows, consultant_id, submitted) ==
    {r \in rows : r.consultant # consultant_id} \cup submitted

\* Mission.forecasted_work / Mission.done_work keep their result in the cache
CacheWork(key, mission_id) ==
    /\ <<key, mission_id>> \notin cache
    /\ cache' = cache \cup {<<key, mission_id>>}
    /\ stResp' = NoStResp
    /\ UNCHANGED <<today, user, timesheetVars, staffing, expenseVars, billingVars, otherVars>>

\* Lines 144-174: "home" (redirect to the mission home), "forbidden", "save",
\* "render", or "error" (formset is unbound when the automatic form is invalid)
MissionStaffingStep_NoReadOnlyCheck(req, form_mode, readOnly) ==
    IF ~req.ajax THEN "home"
    ELSE IF req.method = "POST"
         THEN IF req.valid THEN "save"
              ELSE IF form_mode = "manual" THEN "render" ELSE "error"
    ELSE "render"

MissionStaffingStep(req, form_mode, readOnly) ==
    IF ~req.ajax THEN "home"
    ELSE IF req.method = "POST"
         THEN IF readOnly THEN "forbidden"
              ELSE IF req.valid THEN "save"
              ELSE IF form_mode = "manual" THEN "render" ELSE "error"
    ELSE "render"

mission_staffing(mission_id, form_mode, req) ==
    \E readOnly \in {~has_all_staffing_perms(user)} :
    \E step \in {MissionStaffingStep(req, form_mode, readOnly)} :
    \E known \in {mission_id \in MissionIds} :
    \E rows \in {IF step = "save" /\ known
                 THEN saveMissionRows(staffing, mission_id, req.rows)
                 ELSE staffing} :
        /\ Cardinality(rows) <= MaxStaffings
        /\ staffing' = rows
        /\ cache' = IF step \in {"save", "render", "error"} /\ known
                    THEN cache \ {<<k, mission_id>> : k \in MissionCacheKeys}
                    ELSE cache
        /\ stResp' = [view |-> "mission_staffing",
                      status |-> IF step # "home" /\ ~known THEN "error"
                                 ELSE IF step = "save" THEN "render" ELSE step,
                      method |-> req.method,
                      ajax |-> req.ajax,
                      target |-> mission_id,
                      read_only |-> readOnly,
                      saved |-> step = "save" /\ known]
        /\ UNCHANGED <<today, user, timesheetVars, expenseVars, billingVars, otherVars>>

\* Lines 198-214: "forbidden", "save" or "render"
ConsultantStaffingStep_NoOwnerCheck(u, consultant, req) ==
    IF req.method = "POST" /\ req.valid THEN "save" ELSE "render"

ConsultantStaffingStep(u, consultant, req) ==
    IF ~has_all_staffing_perms(u) /\ upper(u.username) # consultant.trigramme
    THEN "forbidden"
    ELSE IF req.method = "POST" /\ req.valid THEN "save" ELSE "render"

consultant_staffing(consultant_id, req) ==
    IF consultant_id \notin ConsultantIds
    THEN \* Consultant.objects.get raises DoesNotExist: no response of the view
         /\ stResp' = [NoStResp EXCEPT !.view = "consultant_staffing", !.status = "error",
                                       !.method = req.method, !.ajax = req.ajax]
         /\ UNCHANGED <<today, user, timesheetVars, staffing, cache, expenseVars, billingVars, otherVars>>
    ELSE
    \E step \in {ConsultantStaffingStep(user, ConsultantById(consultant_id), req)} :
    \E rows \in {IF step = "save"
                 THEN saveConsultantRows(staffing, consultant_id, req.rows)
                 ELSE staffing} :
        /\ Cardinality(rows) <= MaxStaffings
        /\ staffing' = rows
        /\ stResp' = [view |-> "consultant_staffing",
                      status |-> IF step = "save" THEN "render" ELSE step,
                      method |-> req.method,
                      ajax |-> req.ajax,
                      target |-> consultant_id,
                      read_only |-> FALSE,
                      saved |-> step = "save"]
        /\ UNCHANGED <<today, user, timesheetVars, cache, expenseVars, billingVars, otherVars>>

(***************************************************************************)
(* Properties of mission_staffing and consultant_staffing (SpecStaffing).  *)
(***************************************************************************)
LacksStaffingPerms == ~(StaffingPerms \subseteq user.perms)

C7_Response ==
    stResp.view = "mission_staffing" =>
        /\ stResp.saved => (stResp.ajax /\ stResp.method = "POST" /\ ~LacksStaffingPerms)
        /\ ~stResp.ajax => (stResp.status = "home" /\ ~stResp.saved)
        /\ (stResp.ajax /\ stResp.method = "POST" /\ LacksStaffingPerms
               /\ stResp.target \in MissionIds)
              => (stResp.status = "forbidden" /\ ~stResp.saved)

C8_OtherConsultant ==
    /\ stResp.view = "consultant_staffing"
    /\ stResp.target \in ConsultantIds
    /\ LacksStaffingPerms
    /\ ConsultantById(stResp.target).trigramme # upper(user.username)

C8_Response ==
    /\ C8_OtherConsultant => (stResp.status = "forbidden" /\ ~stResp.saved)
    /\ (stResp.view = "consultant_staffing" /\ stResp.status = "render" /\ LacksStaffingPerms)
           => ConsultantById(stResp.target).trigramme = upper(user.username)

\* C8: a user lacking one of the three staffing permissions gets the staffing
\* form of a consultant, and can save it, only when the consultant's trigramme
\* is the upper-cased username; for any other consultant GET and POST are
\* redirected to the forbidden page and no Staffing row changes.
C8_ConsultantStaffingOwnOnly ==
    /\ []C8_Response
    /\ [][(stResp'.view = "consultant_staffing" /\ stResp'.status = "forbidden")
             => staffing' = staffing]_vars
    /\ [][(stResp'.view = "consultant_staffing" /\ staffing' # staffing /\ LacksStaffingPerms)
             => ConsultantById(stResp'.target).trigramme = upper(user.username)]_vars

C8_Witness ==
    /\ C8_OtherConsultant
    /\ stResp.method = "POST"
    /\ stResp.status = "forbidden"
    /\ \E r \in staffing : r.consultant = stResp.target

(***************************************************************************)
(* expense/views.py: update_expense_state, with the workflow of the        *)
(* workflows library it drives.                                            *)
(***************************************************************************)
ExpenseIds == {1, 2}

TransitionIds == {1, 2, 3}

\* Ids a URL may carry: those of the table and one that matches no row
RequestedExpenseIds == ExpenseIds \cup {0}
RequestedTransitionIds == TransitionIds \cup {0}

ExpenseOwners == { <<"a", "b">>, <<"B", "a">> }

\* workflows.models.Transition rows of the expense workflow
Transitions ==
    [t \in TransitionIds |->
        CASE t = 1 -> [source |-> "REQUESTED", destination |-> "VALIDATED", role |-> "expense manager"]
          [] t = 2 -> [source |-> "REQUESTED", destination |-> "REJECTED", role |-> "expense manager"]
          [] t = 3 -> [source |-> "VALIDATED", destination |-> "PAID", role |-> "expense paymaster"]]

\* An Expense row as its owner requested it: the workflow grants expense_edit
\* to the users named by editors
ExpenseRow(owner, state, update_date) ==
    [user |-> owner, state |-> state, amount |-> 1, workflow_in_progress |-> TRUE,
     update_date |-> update_date, editors |-> {owner}]

ExpenseRoles == {"expense manager", "expense paymaster", "expense administrator"}

ExpenseUsers ==
    { MkUser(n, {}, {}, r) : n \in ExpenseOwners \cup { <<"c", "c">> }, r \in SUBSET ExpenseRoles }

\* permissions.utils.has_role
has_role(u, r) == r \in u.roles

\* workflows.utils.do_transition: TRUE when the transition leaves the state of
\* the expense and the user may take it
transition_allowed(exps, expense_id, transition_id, u) ==
    /\ Transitions[transition_id].source = exps[expense_id].state
    /\ has_role(u, Transitions[transition_id].role)

do_transition(exps, expense_id, transition_id, u) ==
    IF transition_allowed(exps, expense_id, transition_id, u)
    THEN [exps EXCEPT ![expense_id].state = Transitions[transition_id].destination]
    ELSE exps

\* Lines 167-179: which way the request goes before wf.do_transition
UpdateExpenseStep_NoOwnerCheck(exps, u, expense_id, transition_id) ==
    IF expense_id \notin DOMAIN exps THEN "no expense"
    ELSE IF transition_id \notin TransitionIds THEN "no transition"
    ELSE "transition"

UpdateExpenseStep_NoTransitionLookup(exps, u, expense_id, transition_id) ==
    IF expense_id \notin DOMAIN exps THEN "no expense"
    ELSE IF exps[expense_id].user = u.username /\ ~has_role(u, "expense administrator")
    THEN "own expense"
    ELSE "transition"

UpdateExpenseStep(exps, u, expense_id, transition_id) ==
    IF expense_id \notin DOMAIN exps THEN "no expense"
    ELSE IF exps[expense_id].user = u.username /\ ~has_role(u, "expense administrator")
    THEN "own expense"
    ELSE IF transition_id \notin TransitionIds THEN "no transition"
    ELSE "transition"

update_expense_state(expense_id, transition_id) ==
    \E step \in {UpdateExpenseStep(expenses, user, expense_id, transition_id)} :
    \E done \in {step = "transition"
                 /\ transition_id \in TransitionIds
                 /\ transition_allowed(expenses, expense_id, transition_id, user)} :
        /\ expenses' = IF step = "transition" /\ transition_id \in TransitionIds
                       THEN do_transition(expenses, expense_id, transition_id, user)
                       ELSE expenses
        /\ exResp' = [message |->
                          CASE step = "no expense" -> "Expense does not exist"
                            [] step = "own expense" -> "You cannot manage your own expense !"
                            [] step = "no transition" -> "Transition does not exist"
                            [] OTHER -> IF done THEN "Successfully update expense"
                                        ELSE "You cannot do this transition",
                      status |-> "redirect to expenses",
                      expense |-> expense_id,
                      transition |-> transition_id,
                      do_transition |-> IF step # "transition" THEN "not called"
                                        ELSE IF done THEN "true" ELSE "false"]
        /\ UNCHANGED <<today, user, evResp, timesheetVars, staffingVars, billingVars, otherVars>>

(***************************************************************************)
(* expense/views.py: expenses.  The lists handed to the template are kept  *)
(* as sets of expense ids (their order is not modelled); the form carries  *)
(* the amount of the expense.                                              *)
(***************************************************************************)
\* Largest number of Expense rows the model stores.
MaxExpenses == 2

\* Number of days after which an expense in a terminal state is pruned.
PruneDays == 30

ExpenseFormAmounts == {2}

ExpenseViewUsers ==
    { [MkUser(<<"a", "b">>, {}, {}, {}) EXCEPT !.groups = {"expense_requester"}],
      [MkUser(<<"B", "a">>, {}, {}, {}) EXCEPT !.groups = {"expense_requester"}],
      [MkUser(<<"c", "c">>, {}, {}, {}) EXCEPT !.groups = {"expense_requester"}],
      [MkUser(<<"c", "c">>, {}, {}, {"expense paymaster"}) EXCEPT !.groups = {"expense_requester"}],
      MkUser(<<"B", "a">>, {}, {}, {}) }

ExpenseViewRequests ==
    { [method |-> "GET", valid |-> FALSE, amount |-> 0],
      [method |-> "POST", valid |-> FALSE, amount |-> 0] }
    \cup { [method |-> "POST", valid |-> TRUE, amount |-> a] : a \in ExpenseFormAmounts }

\* Consultant.objects.get(trigramme__iexact=name): the matching rows
ConsultantsByTrigrammeIexact(name) == {c \in Consultants : upper(c.trigramme) = upper(name)}

\* Consultant.userTeam(excludeSelf=False): the users of the consultant's team
\* and the consultant's own user
userTeam(c) ==
    {n \in Usernames : \E x \in team(c) \cup {c} : upper(x.trigramme) = upper(n)}

\* Lines 33-37
user_team_of(u) ==
    IF ConsultantsByTrigrammeIexact(u.username) = {} THEN {}
    ELSE userTeam(CHOOSE c \in ConsultantsByTrigrammeIexact(u.username) : TRUE)

\* permissions.utils.has_permission(expense, user, "expense_edit")
has_permission(exps, expense_id, u) == u.username \in exps[expense_id].editors

\* Lines 42-43: may the user edit the expense
ExpenseEditAllowed_PermissionOnly(exps, expense_id, u, user_team) ==
    has_permission(exps, expense_id, u)

ExpenseEditAllowed(exps, expense_id, u, user_team) ==
    /\ has_permission(exps, expense_id, u)
    /\ (exps[expense_id].user = u.username \/ exps[expense_id].user \in user_team)

\* Lines 39-49: the expense id the rest of the view works with, and the message
ExpenseLookup(exps, expense_id, u, user_team) ==
    IF ~Truthy(expense_id) THEN [expense_id |-> None, messages |-> {}]
    ELSE IF expense_id[1] \notin DOMAIN exps
    THEN [expense_id |-> None, messages |-> {"Expense does not exist"}]
    ELSE IF ~ExpenseEditAllowed(exps, expense_id[1], u, user_team)
    THEN [expense_id |-> None, messages |-> {"You are not allowed to edit that expense"}]
    ELSE [expense_id |-> expense_id, messages |-> {}]

\* workflows.utils.set_initial_state
InitialExpenseState == "REQUESTED"

\* Lines 53-63: the form saved on the expense it is bound to, or on a new one
SaveExpenseForm(exps, expense_id, u, day, amount) ==
    IF expense_id # None
    THEN [exps EXCEPT ![expense_id[1]].amount = amount,
                      ![expense_id[1]].state = InitialExpenseState,
                      ![expense_id[1]].update_date = day]
    ELSE LET new_id == Cardinality(DOMAIN exps) + 1
         IN  [e \in DOMAIN exps \cup {new_id} |->
                 IF e = new_id
                 THEN [ExpenseRow(u.username, InitialExpenseState, day) EXCEPT !.amount = amount]
                 ELSE exps[e]]

\* wf.get_state(expense).transitions.count() == 0
IsTerminalState(state) == \A t \in TransitionIds : Transitions[t].source # state

\* Lines 93-96: the expenses whose in-memory object gets workflow_in_progress = False
PrunedInMemory(exps, day) ==
    {e \in DOMAIN exps :
        /\ exps[e].workflow_in_progress
        /\ toordinal(exps[e].update_date) < toordinal(day) - PruneDays
        /\ IsTerminalState(exps[e].state)}

\* Lines 93-96 as they leave the Expense table: the loop never saves its objects
PruneOldExpenses(exps, day) ==
    LET objects == [e \in PrunedInMemory(exps, day) |->
                       [exps[e] EXCEPT !.workflow_in_progress = FALSE]]
    IN  exps

\* Lines 71-83
UserExpenses(exps, u) ==
    {e \in DOMAIN exps : exps[e].user = u.username /\ exps[e].workflow_in_progress}

ManagedExpenses(exps, u, user_team) ==
    IF has_role(u, "expense paymaster")
    THEN {e \in DOMAIN exps : exps[e].workflow_in_progress /\ exps[e].user # u.username}
    ELSE {e \in DOMAIN exps : exps[e].user \in user_team /\ exps[e].workflow_in_progress}

expenses_view(expense_id, req) ==
    IF "expense_requester" \notin user.groups
    THEN /\ evResp' = [NoEvResp EXCEPT !.status = "redirect to forbiden", !.method = req.method,
                                       !.valid = req.valid, !.expense_id = expense_id]
         /\ UNCHANGED <<today, user, expenses, exResp, timesheetVars, staffingVars, billingVars, otherVars>>
    ELSE
    \E user_team \in {user_team_of(user)} :
    \E found \in {ExpenseLookup(expenses, expense_id, user, user_team)} :
        IF req.method = "POST" /\ req.valid
        THEN \E saved \in {SaveExpenseForm(expenses, found.expense_id, user, today, req.amount)} :
               /\ Cardinality(DOMAIN saved) <= MaxExpenses
               /\ expenses' = saved
               /\ evResp' = [NoEvResp EXCEPT !.status = "redirect to expenses",
                                             !.method = req.method,
                                             !.valid = TRUE,
                                             !.expense_id = expense_id,
                                             !.messages = found.messages,
                                             !.created = IF found.expense_id = None
                                                         THEN Cardinality(DOMAIN saved) ELSE 0]
               /\ UNCHANGED <<today, user, exResp, timesheetVars, staffingVars, billingVars, otherVars>>
        ELSE /\ expenses' = PruneOldExpenses(expenses, today)
             /\ evResp' = [status |-> "render", method |-> req.method, valid |-> req.valid,
                           expense_id |-> expense_id,
                           messages |-> found.messages,
                           modify_expense |-> Truthy(found.expense_id),
                           created |-> 0,
                           user_expenses |-> UserExpenses(expenses, user),
                           managed_expenses |-> ManagedExpenses(expenses, user, user_team)]
             /\ UNCHANGED <<today, user, exResp, timesheetVars, staffingVars, billingVars, otherVars>>

(***************************************************************************)
(* billing/utils.py: compute_bill.  Money is counted in cents; the model's *)
(* amounts are whole currency units, so that amount * (1 + vat / 100) is a *)
(* whole number of cents as it is an exact Decimal in the code.  Every     *)
(* change of a detail or an expense of the bill is followed by the bill's  *)
(* save, which calls compute_bill.                                         *)
(***************************************************************************)
\* Largest number of BillDetail / BillExpense rows of the bill.
MaxDetails == 2
MaxBillExpenses == 1

BillStates == {"0_DRAFT", "0_PROPOSED", "1_SENT"}

BillAmounts == {None, Some(0), Some(20000)}
BillAmountsWithVat == {None, Some(0), Some(24000)}
BillVats == {10, 20}

DetailInputs ==
    { [amount |-> None, amount_with_vat |-> None],
      [amount |-> Some(10000), amount_with_vat |-> Some(12000)],
      [amount |-> Some(10000), amount_with_vat |-> Some(11000)],
      [amount |-> Some(30000), amount_with_vat |-> None] }

BillExpenseInputs == { [amount |-> 5000, amount_with_vat |-> 6000] }

NewBill == [state |-> "0_DRAFT", amount |-> None, amount_with_vat |-> None, vat |-> 20]

NoBillCall == [op |-> "none", bill |-> NewBill]

RECURSIVE SumDetailAmounts(_)
SumDetailAmounts(ds) ==
    IF ds = <<>> THEN 0
    ELSE (IF Truthy(Head(ds).amount) THEN Head(ds).amount[1] ELSE 0) + SumDetailAmounts(Tail(ds))

RECURSIVE SumDetailAmountsWithVat(_)
SumDetailAmountsWithVat(ds) ==
    IF ds = <<>> THEN 0
    ELSE (IF Truthy(Head(ds).amount_with_vat) THEN Head(ds).amount_with_vat[1] ELSE 0)
         + SumDetailAmountsWithVat(Tail(ds))

\* ClientBill.expensesTotal(): sum of the amounts of the bill's expenses
RECURSIVE expensesTotal(_)
expensesTotal(es) ==
    IF es = <<>> THEN 0 ELSE Head(es).amount + expensesTotal(Tail(es))

\* ClientBill.expensesTotalWithTaxes()
RECURSIVE expensesTotalWithTaxes(_)
expensesTotalWithTaxes(es) ==
    IF es = <<>> THEN 0 ELSE Head(es).amount_with_vat + expensesTotalWithTaxes(Tail(es))

\* Lines 58-74: amounts taken from the details and expenses of a draft bill
SumBillDetails(b, ds, es) ==
    IF b.state \in {"0_DRAFT", "0_PROPOSED"}
    THEN LET amount == SumDetailAmounts(ds) + expensesTotal(es)
             amount_with_vat == SumDetailAmountsWithVat(ds) + expensesTotalWithTaxes(es)
         IN  [b EXCEPT !.amount = IF amount # 0 THEN Some(amount) ELSE @,
                       !.amount_with_vat = IF amount_with_vat # 0 THEN Some(amount_with_vat) ELSE @]
    ELSE b

\* Lines 76-79: amount with VAT computed when it is not defined
AutoAmountWithVat_IgnoresVat(b) ==
    IF ~Truthy(b.amount_with_vat) /\ Truthy(b.amount)
    THEN [b EXCEPT !.amount_with_vat = Some(b.amount[1])]
    ELSE b

AutoAmountWithVat(b) ==
    IF ~Truthy(b.amount_with_vat) /\ Truthy(b.amount)
    THEN [b EXCEPT !.amount_with_vat = Some((b.amount[1] * (100 + b.vat)) \div 100)]
    ELSE b

compute_bill(b, ds, es) == AutoAmountWithVat(SumBillDetails(b, ds, es))

RemoveAt(seq, i) == SubSeq(seq, 1, i - 1) \o SubSeq(seq, i + 1, Len(seq))

\* The bill's save after a change of its rows or of its own fields
SaveWith(op, b, ds, es) ==
    /\ bill' = compute_bill(b, ds, es)
    /\ billArg' = [op |-> op, bill |-> b]
    /\ details' = ds
    /\ billExpenses' = es
    /\ UNCHANGED <<today, user, timesheetVars, staffingVars, expenseVars, otherVars>>

AddDetail(d) ==
    /\ Len(details) < MaxDetails
    /\ SaveWith("add detail", bill, Append(details, d), billExpenses)

ChangeDetail(i, d) ==
    /\ i \in DOMAIN details
    /\ details[i] # d
    /\ SaveWith("change detail", bill, [details EXCEPT ![i] = d], billExpenses)

RemoveDetail(i) ==
    /\ i \in DOMAIN details
    /\ SaveWith("remove detail", bill, RemoveAt(details, i), billExpenses)

AddExpense(e) ==
    /\ Len(billExpenses) < MaxBillExpenses
    /\ SaveWith("add expense", bill, details, Append(billExpenses, e))

RemoveExpense(i) ==
    /\ i \in DOMAIN billExpenses
    /\ SaveWith("remove expense", bill, details, RemoveAt(billExpenses, i))

\* The bill saved with fields set by its form
SaveBill(state, amount, amount_with_vat, vat) ==
    SaveWith("save bill",
             [state |-> state, amount |-> amount, amount_with_vat |-> amount_with_vat, vat |-> vat],
             details, billExpenses)

(***************************************************************************)
(* staffing/views.py: the CSV exports.  A response body is a sequence of   *)
(* bytes; the text of the rows is ASCII, one byte per character.  Charges  *)
(* and prices are whole numbers.                                           *)
(***************************************************************************)
\* codecs.BOM_UTF8
BOM_UTF8 == <<"EF", "BB", "BF">>

Digit(n) == CASE n = 0 -> "0" [] n = 1 -> "1" [] n = 2 -> "2" [] n = 3 -> "3" [] n = 4 -> "4"
              [] n = 5 -> "5" [] n = 6 -> "6" [] n = 7 -> "7" [] n = 8 -> "8" [] n = 9 -> "9"

\* str(n) of a natural number
RECURSIVE str_int(_)
str_int(n) == IF n < 10 THEN <<Digit(n)>> ELSE Append(str_int(n \div 10), Digit(n % 10))

\* django.utils.formats.number_format of a whole number
number_format(n) == str_int(n)

\* str(d) of a date: YYYY-MM-DD
isoformat(d) ==
    str_int(d.year) \o <<"-">> \o (IF d.month < 10 THEN <<"0">> ELSE <<>>) \o str_int(d.month)
    \o <<"-">> \o (IF d.day < 10 THEN <<"0">> ELSE <<>>) \o str_int(d.day)

\* d.strftime("%a"); Epoch is a Sunday
strftime_a(d) ==
    <<  <<"S", "u", "n">>, <<"M", "o", "n">>, <<"T", "u", "e">>, <<"W", "e", "d">>,
        <<"T", "h", "u">>, <<"F", "r", "i">>, <<"S", "a", "t">>  >>[(toordinal(d) % 7) + 1]

\* csv.writer (excel dialect, QUOTE_MINIMAL): a field is quoted when it holds
\* the delimiter, the quote character or a character of the line terminator,
\* and when it is the empty only field of its row
CsvNeedsQuote(field, delimiter, only) ==
    \/ \E i \in DOMAIN field : field[i] \in {delimiter, "\"", "\r", "\n"}
    \/ (only /\ field = <<>>)

RECURSIVE CsvDoubleQuotes(_)
CsvDoubleQuotes(field) ==
    IF field = <<>> THEN <<>>
    ELSE (IF Head(field) = "\"" THEN <<"\"", "\"">> ELSE <<Head(field)>>)
         \o CsvDoubleQuotes(Tail(field))

CsvField(field, delimiter, only) ==
    IF CsvNeedsQuote(field, delimiter, only)
    THEN <<"\"">> \o CsvDoubleQuotes(field) \o <<"\"">>
    ELSE field

RECURSIVE CsvJoin(_, _, _)
CsvJoin(row, i, delimiter) ==
    IF i > Len(row) THEN <<>>
    ELSE (IF i > 1 THEN <<delimiter>> ELSE <<>>)
         \o CsvField(row[i], delimiter, Len(row) = 1)
         \o CsvJoin(row, i + 1, delimiter)

\* csv.writer.writerow
writerow(row, delimiter) == CsvJoin(row, 1, delimiter) \o <<"\r", "\n">>

RECURSIVE WriteRows(_, _)
WriteRows(rows, delimiter) ==
    IF rows = <<>> THEN <<>>
    ELSE writerow(Head(rows), delimiter) \o WriteRows(Tail(rows), delimiter)

\* [f(x) for x in seq]
MapSeq(f(_), seq) == [i \in DOMAIN seq |-> f(seq[i])]

RECURSIVE SumSeq(_)
SumSeq(seq) == IF seq = <<>> THEN 0 ELSE Head(seq) + SumSeq(Tail(seq))

\* Lines 802-824: the rows of consultant_csv_timesheet; charges[i][j] is the
\* charge of the timesheet of mission i on day j, None when there is no timesheet
consultant_csv_rows(consultant, days, month, missions, charges) ==
    LET day_number(d) == str_int(d.day)
        mission_row(i) ==
            <<missions[i].name, missions[i].mission_id>>
            \o [j \in DOMAIN days |->
                   IF charges[i][j] = None THEN <<>> ELSE number_format(charges[i][j][1])]
            \o <<number_format(SumSeq([j \in DOMAIN days |->
                                          IF charges[i][j] = None THEN 0 ELSE charges[i][j][1]]))>>
    IN  <<  <<consultant \o <<" ", "-", " ">> \o isoformat(month)>>,
            << <<>>, <<>> >> \o MapSeq(day_number, days),
            << <<"M", "i", "s", "s", "i", "o", "n">>, <<"D", "e", "a", "l", " ", "i", "d">> >>
                \o MapSeq(strftime_a, days) \o << <<"t", "o", "t", "a", "l">> >>  >>
        \o [i \in DOMAIN missions |-> mission_row(i)]

\* Lines 796-800: the response and its writer
ConsultantCsvResponse(rows) == BOM_UTF8 \o WriteRows(rows, ";")

\* Lines 1001-1007
MissionCsvResponse(rows) == BOM_UTF8 \o WriteRows(rows, ";")

\* Lines 1142-1150: the rows of all_csv_timesheet (the sums are whole numbers)
all_csv_rows(charges, month) == << <<isoformat(month)>> >> \o charges

\* Lines 1136-1140
AllCsvResponse_CommaDelimiter(rows) == BOM_UTF8 \o WriteRows(rows, ",")

AllCsvResponse(rows) == BOM_UTF8 \o WriteRows(rows, ";")

DetailedCsvHeader ==
    <<  <<"L", "e", "a", "d">>, <<"D", "e", "a", "l", " ", "i", "d">>,
        <<"L", "e", "a", "d", " ", "P", "r", "i", "c", "e">>, <<"M", "i", "s", "s", "i", "o", "n">>,
        <<"M", "i", "s", "s", "i", "o", "n", " ", "i", "d">>,
        <<"B", "i", "l", "l", "i", "n", "g", " ", "m", "o", "d", "e">>,
        <<"M", "i", "s", "s", "i", "o", "n", " ", "P", "r", "i", "c", "e">>,
        <<"C", "o", "n", "s", "u", "l", "t", "a", "n", "t">>,
        <<"D", "a", "i", "l", "y", " ", "r", "a", "t", "e">>,
        <<"B", "o", "u", "g", "h", "t", " ", "d", "a", "i", "l", "y", " ", "r", "a", "t", "e">>,
        <<"P", "a", "s", "t", " ", "d", "o", "n", "e", " ", "d", "a", "y", "s">>,
        <<"D", "o", "n", "e", " ", "d", "a", "y", "s">>,
        <<"D", "a", "y", "s", " ", "t", "o", " ", "b", "e", " ", "d", "o", "n", "e">>  >>

\* formats.number_format(x) if x else 0
NumberOrZero(x) == IF x # 0 THEN number_format(x) ELSE str_int(0)

\* Lines 1184-1207: the row of a mission and one of its consultants; c carries
\* the consultant's financial condition on the mission (None when there is
\* none) and the sums of the timesheets and of the staffing
detailed_csv_row(mission, c) ==
    <<  IF mission.lead # None THEN mission.lead[1].name ELSE <<>>,
        IF mission.lead # None THEN mission.lead[1].deal_id ELSE <<>>,
        IF mission.lead # None THEN str_int(mission.lead[1].sales) ELSE str_int(0),
        mission.name, mission.mission_id, mission.billing_mode,
        NumberOrZero(mission.price),
        c.name  >>
    \o (IF c.financialCondition # None
        THEN << NumberOrZero(c.financialCondition[1].daily_rate),
                NumberOrZero(c.financialCondition[1].bought_daily_rate) >>
        ELSE << str_int(0), str_int(0) >>)
    \o << NumberOrZero(c.past), NumberOrZero(c.done), NumberOrZero(c.forecast) >>

RECURSIVE FlattenSeq(_)
FlattenSeq(seqs) == IF seqs = <<>> THEN <<>> ELSE Head(seqs) \o FlattenSeq(Tail(seqs))

\* Lines 1172-1209
detailed_csv_rows(month, missions) ==
    << <<isoformat(month)>>, DetailedCsvHeader >>
    \o FlattenSeq([i \in DOMAIN missions |->
                      [j \in DOMAIN missions[i].consultants |->
                          detailed_csv_row(missions[i], missions[i].consultants[j])]])

\* Lines 1159-1163
DetailedCsvResponse(rows) == BOM_UTF8 \o WriteRows(rows, ";")

NoCsvResp == [view |-> "none", rows |-> <<>>, content |-> <<>>]

CsvResponse(view, rows, content) == [view |-> view, rows |-> rows, content |-> content]

\* The response has been sent
CsvSent ==
    /\ csvResp # NoCsvResp
    /\ csvResp' = NoCsvResp
    /\ UNCHANGED <<today, user, timesheetVars, staffingVars, expenseVars, billingVars, learnVars, reportVars,
                   massVars, createVars>>

\* Every export starts from a response of its own, response = HttpResponse(...)
consultant_csv_timesheet(consultant, days, month, missions, charges) ==
    /\ csvResp = NoCsvResp
    /\ \E rows \in {consultant_csv_rows(consultant, days, month, missions, charges)} :
          csvResp' = CsvResponse("consultant_csv_timesheet", rows, ConsultantCsvResponse(rows))
    /\ UNCHANGED <<today, user, timesheetVars, staffingVars, expenseVars, billingVars, learnVars, reportVars,
                   massVars, createVars>>

\* rows is timesheet_report_data(mission, padding=True)
mission_csv_timesheet(rows) ==
    /\ csvResp = NoCsvResp
    /\ csvResp' = CsvResponse("mission_csv_timesheet", rows, MissionCsvResponse(rows))
    /\ UNCHANGED <<today, user, timesheetVars, staffingVars, expenseVars, billingVars, learnVars, reportVars,
                   massVars, createVars>>

all_csv_timesheet(charges, month) ==
    /\ csvResp = NoCsvResp
    /\ \E rows \in {all_csv_rows(charges, month)} :
          csvResp' = CsvResponse("all_csv_timesheet", rows, AllCsvResponse(rows))
    /\ UNCHANGED <<today, user, timesheetVars, staffingVars, expenseVars, billingVars, learnVars, reportVars,
                   massVars, createVars>>

detailed_csv_timesheet(ym, missions) ==
    /\ csvResp = NoCsvResp
    /\ \E month \in {IF ym = None THEN ReplaceDay1(today) ELSE MonthDate(ym[1])} :
       \E rows \in {detailed_csv_rows(month, missions)} :
          csvResp' = CsvResponse("detailed_csv_timesheet", rows, DetailedCsvResponse(rows))
    /\ UNCHANGED <<today, user, timesheetVars, staffingVars, expenseVars, billingVars, learnVars, reportVars,
                   massVars, createVars>>

(***************************************************************************)
(* Inputs of the CSV exports.                                              *)
(***************************************************************************)
\* Largest number of days, missions and rows an export is given.
MaxCsvItems == 2

\* Names as str() gives them: plain, holding the delimiter, a comma and a
\* quote, or a line break, and empty
CsvNames == { <<"a">>, <<"a", ";">>, <<",", "\"">>, <<"\r", "\n">>, <<>> }

SeqsUpTo(S, n) == UNION {[1..k -> S] : k \in 0..n}

CsvDays == {[i \in 1..k |-> AddDays(MkDate(2024, 1, 1), i - 1)] : k \in 0..MaxCsvItems}

CsvMissions ==
    { <<>>, << [name |-> <<"a", ";">>, mission_id |-> <<"1">>] >>,
      << [name |-> <<"\"", "b">>, mission_id |-> <<>>], [name |-> <<"a">>, mission_id |-> <<"2">>] >> }

CsvCharges == {None, Some(0), Some(12)}

\* Rows of cells: no cell, one empty cell, cells holding the delimiter, quotes,
\* a comma or a line break, numbers
CsvRows ==
    { <<>>, << <<>> >>, << <<>>, <<>> >>, << str_int(12) >>,
      << <<"a", ";">>, str_int(12) >>, << <<",", "\"">>, <<"\r", "\n">> >> }

DetailedConsultants ==
    { [name |-> <<"a", ";">>, financialCondition |-> None, past |-> 0, done |-> 3, forecast |-> 0],
      [name |-> <<"\"", "b">>,
       financialCondition |-> Some([daily_rate |-> 900, bought_daily_rate |-> 0]),
       past |-> 10, done |-> 0, forecast |-> 2] }

DetailedMissions ==
    { [lead |-> l, name |-> n, mission_id |-> <<"1">>, billing_mode |-> <<"T", "M">>,
       price |-> p, consultants |-> cs] :
        l \in {None, Some([name |-> <<"a", ";">>, deal_id |-> <<"d">>, sales |-> 50])},
        n \in {<<"a">>, <<",", "b">>}, p \in {0, 40},
        cs \in SeqsUpTo(DetailedConsultants, 1) }

(***************************************************************************)
(* people/learn.py: compute_consultant_similarity.  A fitted model is      *)
(* known by the consultants it was fitted on.                              *)
(***************************************************************************)
\* Largest number of consultants of the Consultant table.
MaxSimConsultants == 6

CONSULTANT_SIMILARITY_MODEL_CACHE_KEY == "PYDICI_CONSULTANT_SIMILARITY_MODEL"
SIMILARITY_CONSULTANT_IDS_CACHE_KEY == "PYDICI_CONSULTANT_SIMILARITY_CONSULTANTS_IDS"

\* Fewest consultants a model is fitted on.
MinSimilarityConsultants == 5

SimilarityCacheTimeout == 3600 * 24 * 7

NoSimResp == [called |-> FALSE, result |-> None, fitted |-> FALSE]

\* cache.get(key): None when the key is absent
cache_get(c, key) == IF key \in DOMAIN c THEN Some(c[key].value) ELSE None

\* cache.set(key, value, timeout)
cache_set(c, key, value, timeout) ==
    [k \in DOMAIN c \cup {key} |->
        IF k = key THEN [value |-> value, timeout |-> timeout] ELSE c[k]]

\* The ids of a set of consultants as a list, in the order of the ids
RECURSIVE IdList(_)
IdList(S) == IF S = {} THEN <<>> ELSE <<MinOf(S)>> \o IdList(S \ {MinOf(S)})

\* get_similarity_model() fitted on the features of the consultants
FitModel(consultants) == [fitted_on |-> consultants]

\* Lines 113-121: which way the call goes
SimilarityStep_CountBeforeCache(have_scikit, model, count) ==
    IF ~have_scikit THEN "none"
    ELSE IF count < MinSimilarityConsultants THEN "none"
    ELSE IF model # None THEN "hit"
    ELSE "fit"

SimilarityStep(have_scikit, model, count) ==
    IF ~have_scikit THEN "none"
    ELSE IF model # None THEN "hit"
    ELSE IF count < MinSimilarityConsultants THEN "none"
    ELSE "fit"

\* Lines 128-130: the cache after a fit
SimilarityCacheWrite(c, model, consultants) ==
    cache_set(cache_set(c, CONSULTANT_SIMILARITY_MODEL_CACHE_KEY, model, SimilarityCacheTimeout),
              SIMILARITY_CONSULTANT_IDS_CACHE_KEY, IdList(consultants), SimilarityCacheTimeout)

compute_consultant_similarity ==
    /\ simResp = NoSimResp
    /\ \E model \in {cache_get(simCache, CONSULTANT_SIMILARITY_MODEL_CACHE_KEY)} :
       \E step \in {SimilarityStep(HAVE_SCIKIT, model, Cardinality(simConsultants))} :
          /\ simCache' = IF step = "fit"
                         THEN SimilarityCacheWrite(simCache, FitModel(simConsultants), simConsultants)
                         ELSE simCache
          /\ simResp' = [called |-> TRUE,
                         result |-> CASE step = "none" -> None
                                      [] step = "hit" -> model
                                      [] step = "fit" -> Some(FitModel(simConsultants)),
                         fitted |-> step = "fit"]
    /\ UNCHANGED <<today, user, timesheetVars, staffingVars, expenseVars, billingVars, reportVars, massVars, createVars,
                   csvResp, HAVE_SCIKIT, simConsultants>>

\* The caller has taken the result
SimilarityResultUsed ==
    /\ simResp # NoSimResp
    /\ simResp' = NoSimResp
    /\ UNCHANGED <<today, user, timesheetVars, staffingVars, expenseVars, billingVars, reportVars, massVars, createVars,
                   csvResp, HAVE_SCIKIT, simConsultants, simCache>>

\* A consultant becomes active, productive and no subcontractor, or stops being so
ConsultantJoins(c) ==
    /\ simResp = NoSimResp
    /\ c \notin simConsultants
    /\ simConsultants' = simConsultants \cup {c}
    /\ UNCHANGED <<today, user, timesheetVars, staffingVars, expenseVars, billingVars, reportVars, massVars, createVars,
                   csvResp, HAVE_SCIKIT, simCache, simResp>>

ConsultantLeaves(c) ==
    /\ simResp = NoSimResp
    /\ c \in simConsultants
    /\ simConsultants' = simConsultants \ {c}
    /\ UNCHANGED <<today, user, timesheetVars, staffingVars, expenseVars, billingVars, reportVars, massVars, createVars,
                   csvResp, HAVE_SCIKIT, simCache, simResp>>

\* The lifetime of a cache entry runs out
CacheExpires(key) ==
    /\ simResp = NoSimResp
    /\ key \in DOMAIN simCache
    /\ simCache' = [k \in DOMAIN simCache \ {key} |-> simCache[k]]
    /\ UNCHANGED <<today, user, timesheetVars, staffingVars, expenseVars, billingVars, reportVars, massVars, createVars,
                   csvResp, HAVE_SCIKIT, simConsultants, simResp>>

(***************************************************************************)
(* staffing/views.py: pdc_review, for the consultants that are productive, *)
(* active and no subcontractors, without team or subsidiary filter.  Days  *)
(* are counted in hundredths, so that charge * probability / 100 is a      *)
(* whole number.  Of what the view hands to its template the model keeps   *)
(* the projection, the months and the sums per consultant and per month.   *)
(***************************************************************************)
\* Largest number of Staffing rows a report reads.
MaxReportStaffings == 2

\* Default number of months to display, and the most that can be asked for.
DefaultNMonth == 4
MaxNMonth == 12

NoReport == [view |-> "none"]

\* The report has been rendered and sent
ReportSent ==
    /\ reportResp # NoReport
    /\ reportArg' = NoReport
    /\ reportResp' = NoReport
    /\ UNCHANGED <<today, user, timesheetVars, staffingVars, expenseVars, billingVars,
                   csvResp, learnVars, massVars, createVars>>

\* sum(f[x] for x in S)
RECURSIVE SumOver(_, _)
SumOver(S, f) ==
    IF S = {} THEN 0
    ELSE LET x == CHOOSE y \in S : TRUE IN f[x] + SumOver(S \ {x}, f)

\* Mission rows: id -> [nature, probability]
PdcMissions ==
    <<  [nature |-> "PROD", probability |-> 100], [nature |-> "PROD", probability |-> 50],
        [nature |-> "NONPROD", probability |-> 50], [nature |-> "HOLIDAYS", probability |-> 100],
        [nature |-> "NONPROD", probability |-> 0]  >>

PdcConsultants == {1, 2}

\* Lines 309-317
PdcNMonth(param) ==
    IF param = None THEN DefaultNMonth
    ELSE IF param[1] > MaxNMonth THEN MaxNMonth ELSE param[1]

\* Lines 319-322
PdcProjection(param) ==
    IF param # None /\ param[1] \in {"none", "balanced", "full"} THEN param[1] ELSE "balanced"

\* Lines 342-347
PdcMonths(start_date, n_month) ==
    [k \in 1..n_month |->
        IF start_date.month + (k - 1) <= 12
        THEN [start_date EXCEPT !.month = start_date.month + (k - 1)]
        ELSE [start_date EXCEPT !.month = start_date.month + (k - 1) - 12,
                                !.year = start_date.year + 1]]

\* Lines 368-373: the staffing of the consultant for the month that the projection keeps
PdcCurrentStaffings_AnyProbability(rows, consultant, month, projection) ==
    {r \in rows : r.consultant = consultant /\ r.staffing_date = month
                  /\ PdcMissions[r.mission].probability > 0}

PdcCurrentStaffings(rows, consultant, month, projection) ==
    IF projection \in {"balanced", "full"}
    THEN {r \in rows : r.consultant = consultant /\ r.staffing_date = month
                       /\ PdcMissions[r.mission].probability > 0}
    ELSE {r \in rows : r.consultant = consultant /\ r.staffing_date = month
                       /\ PdcMissions[r.mission].probability = 100}

\* Lines 383-386: what a staffing adds to its list, in hundredths of a day
PdcCharge(r, projection) ==
    IF projection = "full" THEN r.charge * 100
    ELSE r.charge * PdcMissions[r.mission].probability

\* Lines 376-401
PdcSums(rows, consultant, month, projection) ==
    LET current_staffings == PdcCurrentStaffings(rows, consultant, month, projection)
        charge == [r \in current_staffings |-> PdcCharge(r, projection)]
        of_nature(n) == {r \in current_staffings : PdcMissions[r.mission].nature = n}
    IN  [prod |-> SumOver(of_nature("PROD"), charge),
         unprod |-> SumOver(of_nature("NONPROD"), charge),
         holidays |-> SumOver(of_nature("HOLIDAYS"), charge)]

\* Lines 408-410: the totals of a month
PdcTotal(sums, k) ==
    LET prod == [c \in PdcConsultants |-> sums[c][k].prod]
        unprod == [c \in PdcConsultants |-> sums[c][k].unprod]
        holidays == [c \in PdcConsultants |-> sums[c][k].holidays]
    IN  [prod |-> SumOver(PdcConsultants, prod),
         unprod |-> SumOver(PdcConsultants, unprod),
         holidays |-> SumOver(PdcConsultants, holidays)]

pdc_review(ym, n_month_param, projection_param, rows) ==
    /\ reportResp = NoReport
    /\ \E n_month \in {PdcNMonth(n_month_param)} :
       \E projection \in {PdcProjection(projection_param)} :
       \E start_date \in {IF ym = None THEN ReplaceDay1(today) ELSE MonthDate(ym[1])} :
       \E months \in {PdcMonths(start_date, n_month)} :
       \E sums \in {[c \in PdcConsultants |->
                       [k \in DOMAIN months |-> PdcSums(rows, c, months[k], projection)]]} :
          /\ reportArg' = [view |-> "pdc_review", projection |-> projection_param, rows |-> rows]
          /\ reportResp' = [view |-> "pdc_review",
                            projection |-> projection,
                            months |-> months,
                            staffing |-> sums,
                            total |-> [k \in DOMAIN months |-> PdcTotal(sums, k)]]
    /\ UNCHANGED <<today, user, timesheetVars, staffingVars, expenseVars, billingVars,
                   csvResp, learnVars, massVars, createVars>>

\* Inputs of pdc_review
PdcStaffingRows ==
    [consultant : PdcConsultants, mission : DOMAIN PdcMissions,
     staffing_date : {MkDate(2024, 1, 1)}, charge : {3}]
    \cup {[consultant |-> 1, mission |-> 2, staffing_date |-> MkDate(2024, 2, 1), charge |-> 5]}

SubsetsUpTo(S, n) == {T \in SUBSET S : Cardinality(T) <= n}

PdcProjectionParams == {None, Some("none"), Some("balanced"), Some("full"), Some("all")}

(***************************************************************************)
(* staffing/views.py: prod_report, for one consultant.  A rate is the      *)
(* fraction [num, den] with den > 0; the working days of a month, the      *)
(* turnover and the sums of the timesheets per nature are given per month. *)
(***************************************************************************)
\* Number of months of the report.
ProdReportNMonth == 5

all_status ==
    [ok |-> "#43E707", ko |-> "#E76F6F", ok_but_daily_rate |-> "#CCE7B2",
     ok_but_prod_date |-> "#A2E774", ko_but_daily_rate |-> "#E7E36D",
     ko_but_prod_date |-> "#F99E9E"]

Frac(n, d) == [num |-> n, den |-> d]
FracLess(a, b) == a.num * b.den < b.num * a.den

\* core.utils.nextMonth: the first day of the following month
nextMonth(d) ==
    IF d.month = 12 THEN MkDate(d.year + 1, 1, 1) ELSE MkDate(d.year, d.month + 1, 1)

\* Lines 515-520
ProdReportEndDate(ym, day) ==
    IF ym # None /\ toordinal(MonthDate(ym[1])) <= toordinal(day)
    THEN MonthDate(ym[1])
    ELSE ReplaceDay1(day)

\* Lines 524-527
RECURSIVE ProdReportMonths(_, _)
ProdReportMonths(current_date, end_date) ==
    IF toordinal(current_date) < toordinal(end_date)
    THEN <<nextMonth(current_date)>> \o ProdReportMonths(nextMonth(current_date), end_date)
    ELSE <<>>

\* Lines 564-570: the objectives and the forecast; a missing objective raises
\* AttributeError
ProdObjectives(d) ==
    IF d.daily_rate_obj = None \/ d.prod_rate_obj = None
    THEN [prod_rate_obj |-> Frac(0, 1), daily_rate_obj |-> Frac(0, 1), forecast |-> 0]
    ELSE [prod_rate_obj |-> Frac(d.prod_rate_obj[1], 100),
          daily_rate_obj |-> Frac(d.daily_rate_obj[1], 1),
          forecast |-> (d.daily_rate_obj[1] * d.prod_rate_obj[1] * (d.month_days - d.HOLIDAYS))
                       \div 100]

\* Lines 572-575
ProdRate(d) == IF d.PROD + d.NONPROD = 0 THEN Frac(0, 1) ELSE Frac(d.PROD, d.PROD + d.NONPROD)

\* Lines 576-579
DailyRate(d) == IF d.PROD > 0 THEN Frac(d.turnover, d.PROD) ELSE Frac(0, 1)

\* Lines 580-593
ProdStatus_DailyRateFirst(turnover, forecast, prod_rate, prod_rate_obj, daily_rate, daily_rate_obj) ==
    IF turnover >= forecast
    THEN IF FracLess(daily_rate, daily_rate_obj) THEN all_status.ok_but_daily_rate
         ELSE IF FracLess(prod_rate, prod_rate_obj) THEN all_status.ok_but_prod_date
         ELSE all_status.ok
    ELSE IF ~FracLess(daily_rate, daily_rate_obj) THEN all_status.ko_but_daily_rate
         ELSE IF ~FracLess(prod_rate, prod_rate_obj) THEN all_status.ko_but_prod_date
         ELSE all_status.ko

ProdStatus(turnover, forecast, prod_rate, prod_rate_obj, daily_rate, daily_rate_obj) ==
    IF turnover >= forecast
    THEN IF FracLess(prod_rate, prod_rate_obj) THEN all_status.ok_but_prod_date
         ELSE IF FracLess(daily_rate, daily_rate_obj) THEN all_status.ok_but_daily_rate
         ELSE all_status.ok
    ELSE IF ~FracLess(prod_rate, prod_rate_obj) THEN all_status.ko_but_prod_date
         ELSE IF ~FracLess(daily_rate, daily_rate_obj) THEN all_status.ko_but_daily_rate
         ELSE all_status.ko

\* Lines 551-597: the consultant's entry for a month
ProdMonthData(d) ==
    LET obj == ProdObjectives(d)
        prod_rate == ProdRate(d)
        daily_rate == DailyRate(d)
    IN  [status |-> ProdStatus(d.turnover, obj.forecast, prod_rate, obj.prod_rate_obj,
                               daily_rate, obj.daily_rate_obj),
         prod_rate |-> prod_rate, prod_rate_obj |-> obj.prod_rate_obj,
         daily_rate |-> daily_rate, daily_rate_obj |-> obj.daily_rate_obj,
         turnover |-> d.turnover, forecast |-> obj.forecast]

\* Lines 602-609: the total of a month
ProdTotalData(entry) ==
    [status |-> IF entry.forecast > entry.turnover THEN all_status.ko ELSE all_status.ok,
     turnover |-> entry.turnover, forecast |-> entry.forecast]

\* days[k] is what the database holds for the k-th month of the report
prod_report(ym, days) ==
    /\ reportResp = NoReport
    /\ \E end_date \in {ProdReportEndDate(ym, today)} :
       \E start_date \in {ReplaceDay1(AddDays(end_date, -(30 * ProdReportNMonth)))} :
       \E months \in {ProdReportMonths(start_date, end_date)} :
       \E data \in {[k \in DOMAIN months |-> ProdMonthData(days[k])]} :
          /\ Len(days) = Len(months)
          /\ reportArg' = [view |-> "prod_report", days |-> days]
          /\ reportResp' = [view |-> "prod_report", months |-> months, end_date |-> end_date,
                            data |-> data,
                            total |-> [k \in DOMAIN months |-> ProdTotalData(data[k])]]
    /\ UNCHANGED <<today, user, timesheetVars, staffingVars, expenseVars, billingVars,
                   csvResp, learnVars, massVars, createVars>>

\* Inputs of prod_report: a month without timesheets, turnover or objectives,
\* and the months that have some
ProdEmptyMonth ==
    [PROD |-> 0, NONPROD |-> 0, HOLIDAYS |-> 0, daily_rate_obj |-> None, prod_rate_obj |-> None,
     month_days |-> 20, turnover |-> 0]

ProdMonthInputs ==
    [PROD : {0, 2, 12}, NONPROD : {0, 2, 12}, HOLIDAYS : {0, 1},
     daily_rate_obj : {None, Some(100)}, prod_rate_obj : {None, Some(50)},
     month_days : {20}, turnover : {0, 200, 1100}]

(***************************************************************************)
(* staffing/views.py: mission_timesheet.  The timesheets and staffings of  *)
(* the mission are sets of rows [consultant, date, charge], one row per    *)
(* consultant and date; charges are whole days and rates whole k-euros, so *)
(* that days * rate / 1000 is a whole number.                              *)
(***************************************************************************)
MaxMissionRows == 2

\* The dates of S in increasing order
RECURSIVE SortedDates(_)
SortedDates(S) ==
    IF S = {} THEN <<>>
    ELSE LET first == fromordinal(MinOf({toordinal(d) : d \in S}))
         IN  <<first>> \o SortedDates(S \ {first})

\* queryset.dates(field, "month")
MonthsOf(rows) == SortedDates({ReplaceDay1(r.date) : r \in rows})

\* Line 847
MissionTimesheets(timesheets, current_month) ==
    {t \in timesheets : toordinal(t.date) < toordinal(nextMonth(current_month))}

\* Line 851
MissionStaffings(staffings, current_month) ==
    {f \in staffings : toordinal(f.date) >= toordinal(current_month)}

\* Lines 857-867: the days of each month, their total, the total in money
TimesheetData(timesheets, timesheetMonths, consultant, rate) ==
    LET data == [k \in DOMAIN timesheetMonths |->
                    SumOver({t \in timesheets : t.consultant = consultant
                                                /\ ReplaceDay1(t.date) = timesheetMonths[k]},
                            [t \in timesheets |-> t.charge])]
        total == SumSeq(data)
    IN  data \o <<total, (total * rate) \div 1000>>

\* Lines 872-879: the forecast of a month
MissionForecast_NoFloor(staffings, timesheetMonths, timesheetData, current_month, consultant, month) ==
    LET data == SumOver({f \in staffings : f.consultant = consultant /\ f.date.month = month.month
                                           /\ f.date.year = month.year},
                        [f \in staffings |-> f.charge])
    IN  IF /\ timesheetMonths # <<>>
           /\ timesheetMonths[Len(timesheetMonths)] = current_month
           /\ month = current_month
        THEN data - timesheetData[Len(timesheetData) - 2]
        ELSE data

MissionForecast(staffings, timesheetMonths, timesheetData, current_month, consultant, month) ==
    LET data == SumOver({f \in staffings : f.consultant = consultant /\ f.date.month = month.month
                                           /\ f.date.year = month.year},
                        [f \in staffings |-> f.charge])
    IN  IF /\ timesheetMonths # <<>>
           /\ timesheetMonths[Len(timesheetMonths)] = current_month
           /\ month = current_month
        THEN (IF data - timesheetData[Len(timesheetData) - 2] < 0
              THEN 0 ELSE data - timesheetData[Len(timesheetData) - 2])
        ELSE data

\* Lines 870-881
StaffingData(staffings, staffingMonths, timesheetMonths, timesheetData, current_month, consultant, rate) ==
    LET data == [k \in DOMAIN staffingMonths |->
                    MissionForecast(staffings, timesheetMonths, timesheetData, current_month,
                                    consultant, staffingMonths[k])]
        total == SumSeq(data)
    IN  data \o <<total, (total * rate) \div 1000>>

\* Lines 854-886: the row of a consultant
MissionDataRow(timesheets, staffings, timesheetMonths, staffingMonths, current_month, consultant, rate) ==
    LET timesheetData == TimesheetData(timesheets, timesheetMonths, consultant, rate)
        staffingData == StaffingData(staffings, staffingMonths, timesheetMonths, timesheetData,
                                     current_month, consultant, rate)
    IN  [consultant |-> Some(consultant), timesheet |-> timesheetData, staffing |-> staffingData,
         estimated |-> <<timesheetData[Len(timesheetData) - 1] + staffingData[Len(staffingData) - 1],
                         timesheetData[Len(timesheetData)] + staffingData[Len(staffingData)]>>]

\* Lines 900-905: zip(*lists) summed; the rows have the same length
ZipSum(lists, len) ==
    IF lists = <<>> THEN <<>>
    ELSE [k \in 1..len |-> SumSeq([i \in DOMAIN lists |-> lists[i][k]])]

\* Lines 900-915, 937-939: the row of the totals
MissionTotalRow(missionData, timesheetMonths, staffingMonths) ==
    LET timesheetTotal == ZipSum([i \in DOMAIN missionData |-> missionData[i].timesheet],
                                 Len(timesheetMonths) + 2)
        staffingTotal == ZipSum([i \in DOMAIN missionData |-> missionData[i].staffing],
                                Len(staffingMonths) + 2)
    IN  [consultant |-> None, timesheet |-> timesheetTotal, staffing |-> staffingTotal,
         estimated |-> IF timesheetTotal # <<>> /\ staffingTotal # <<>>
                       THEN <<timesheetTotal[Len(timesheetTotal) - 1] + staffingTotal[Len(staffingTotal) - 1],
                              timesheetTotal[Len(timesheetTotal)] + staffingTotal[Len(staffingTotal)]>>
                       ELSE <<0, 0>>]

\* consultants and consultant_rates are mission.consultants() and the rates of
\* mission.consultant_rates(); ajax tells whether the request is an
\* XMLHttpRequest
mission_timesheet(ajax, consultants, consultant_rates, timesheets_all, staffings_all) ==
    /\ reportResp = NoReport
    /\ reportArg' = [view |-> "mission_timesheet", ajax |-> ajax, consultants |-> consultants,
                     timesheets |-> timesheets_all, staffings |-> staffings_all]
    /\ IF ~ajax
       THEN reportResp' = [view |-> "mission_timesheet", status |-> "redirect",
                           location |-> "staffing:mission_home"]
       ELSE \E current_month \in {ReplaceDay1(today)} :
            \E timesheets \in {MissionTimesheets(timesheets_all, current_month)} :
            \E staffings \in {MissionStaffings(staffings_all, current_month)} :
            \E timesheetMonths \in {MonthsOf(timesheets)} :
            \E staffingMonths \in {MonthsOf(staffings)} :
            \E missionData \in {[i \in DOMAIN consultants |->
                                    MissionDataRow(timesheets, staffings, timesheetMonths,
                                                   staffingMonths, current_month, consultants[i],
                                                   consultant_rates[consultants[i]])]} :
               reportResp' = [view |-> "mission_timesheet", status |-> "render",
                              current_month |-> current_month,
                              timesheet_months |-> timesheetMonths,
                              staffing_months |-> staffingMonths,
                              mission_data |-> Append(missionData,
                                  MissionTotalRow(missionData, timesheetMonths, staffingMonths))]
    /\ UNCHANGED <<today, user, timesheetVars, staffingVars, expenseVars, billingVars,
                   csvResp, learnVars, massVars, createVars>>

\* Inputs of mission_timesheet
MissionRow(c, d, n) == [consultant |-> c, date |-> d, charge |-> n]

OneRowPerDate(rows) ==
    \A a, b \in rows : (a.consultant = b.consultant /\ a.date = b.date) => a = b

MissionTimesheetRows ==
    {MissionRow(c, d, 2) : c \in {1, 2},
                           d \in {MkDate(2023, 11, 15), MkDate(2023, 12, 5), MkDate(2023, 12, 20),
                                  MkDate(2024, 1, 10)}}
    \cup {MissionRow(1, MkDate(2023, 12, 5), 5)}

MissionStaffingRows ==
    {MissionRow(c, d, 3) : c \in {1, 2},
                           d \in {MkDate(2023, 11, 1), MkDate(2023, 12, 1), MkDate(2024, 1, 1)}}
    \cup {MissionRow(1, MkDate(2023, 12, 1), 1)}

MissionConsultantRates == [c \in {1, 2} |-> c * 1000]

(***************************************************************************)
(* staffing/views.py: mass_staffing.  The Staffing table is a sequence of  *)
(* rows, a row's position standing for its id; (consultant, mission,       *)
(* staffing_date) is unique in it.                                         *)
(***************************************************************************)
NoMassResp == [status |-> "none", method |-> "none", valid |-> FALSE, form |-> None,
               created |-> 0, messages |-> {}]

\* The response has been sent
MassResponseSent ==
    /\ massResp # NoMassResp
    /\ massResp' = NoMassResp
    /\ UNCHANGED <<today, user, timesheetVars, staffingVars, expenseVars, billingVars,
                   csvResp, learnVars, reportVars, staffingRows, createVars>>

\* Line 242: date(*[int(i) for i in staffing_date.split("-")]) of the pieces
\* of a submitted date
MassStaffingDate(pieces) == MkDate(pieces[1], pieces[2], pieces[3])

\* Lines 234-239: the consultants of the form
MassConsultants(form) ==
    IF form.all_consultants
    THEN {c.id : c \in {x \in Consultants : ~x.subcontractor}}
    ELSE form.consultants

\* Lines 240-242: the (mission, consultant, staffing_date) of the loops, in
\* their order
MassTriples(form) ==
    LET missions == IdList(form.missions)
        consultants == IdList(MassConsultants(form))
        n == Len(consultants) * Len(form.staffing_dates)
    IN  [k \in 1..(Len(missions) * n) |->
            [mission |-> missions[((k - 1) \div n) + 1],
             consultant |-> consultants[(((k - 1) % n) \div Len(form.staffing_dates)) + 1],
             staffing_date |-> MassStaffingDate(
                 form.staffing_dates[((k - 1) % Len(form.staffing_dates)) + 1])]]

MassMatches(rows, t) ==
    {i \in DOMAIN rows : /\ rows[i].consultant = t.consultant
                         /\ rows[i].mission = t.mission
                         /\ rows[i].staffing_date = t.staffing_date}

\* Lines 243-252: get_or_create, then the fields set and the row saved
MassSaveOne_AlwaysCreate(rows, t, form, now, last_user) ==
    LET new == [mission |-> t.mission, consultant |-> t.consultant,
                staffing_date |-> t.staffing_date, charge |-> form.charge,
                comment |-> form.comment, update_date |-> now, last_user |-> last_user]
    IN  Append(rows, new)

MassSaveOne(rows, t, form, now, last_user) ==
    LET new == [mission |-> t.mission, consultant |-> t.consultant,
                staffing_date |-> t.staffing_date, charge |-> form.charge,
                comment |-> form.comment, update_date |-> now, last_user |-> last_user]
    IN  IF MassMatches(rows, t) = {}
        THEN Append(rows, new)
        ELSE [rows EXCEPT ![MinOf(MassMatches(rows, t))] = new]

\* Lines 240-252
RECURSIVE MassSave(_, _, _, _, _)
MassSave(rows, triples, form, now, last_user) ==
    IF triples = <<>> THEN rows
    ELSE MassSave(MassSaveOne(rows, Head(triples), form, now, last_user), Tail(triples),
                  form, now, last_user)

\* A request of a user who has the feature staffing_mass; form is None for
\* a POST whose form is not valid
mass_staffing(method, form) ==
    /\ massResp = NoMassResp
    /\ IF method = "POST" /\ form # None
       THEN \E rows \in {MassSave(staffingRows, MassTriples(form[1]), form[1], today, user.username)} :
               /\ staffingRows' = rows
               /\ massResp' = [status |-> "redirect", method |-> method, valid |-> TRUE,
                               form |-> form, created |-> Len(rows) - Len(staffingRows),
                               messages |-> {"Staffing has been updated"}]
       ELSE /\ staffingRows' = staffingRows
            /\ massResp' = [status |-> "render", method |-> method, valid |-> FALSE,
                            form |-> None, created |-> 0, messages |-> {}]
    /\ UNCHANGED <<today, user, timesheetVars, staffingVars, expenseVars, billingVars,
                   csvResp, learnVars, reportVars, createVars>>

\* Inputs of mass_staffing
MassForm(missions, all, consultants, dates, charge, comment) ==
    [missions |-> missions, all_consultants |-> all, consultants |-> consultants,
     staffing_dates |-> dates, charge |-> charge, comment |-> comment]

MassForms ==
    {MassForm({1}, FALSE, {1}, <<<<2024, 1, 1>>>>, 1, ""),
     MassForm({1, 2}, FALSE, {1, 2}, <<<<2024, 1, 1>>, <<2024, 2, 1>>>>, 2, "x"),
     MassForm({2}, TRUE, {}, <<<<2024, 2, 1>>>>, 1, ""),
     MassForm({1}, FALSE, {1, 3}, <<<<2024, 2, 1>>, <<2024, 1, 1>>>>, 1, "x"),
     MassForm({2}, FALSE, {3}, <<<<2024, 1, 1>>>>, 3, "y")}

\* A row saved earlier by another user
MassOldRow ==
    [mission |-> 1, consultant |-> 3, staffing_date |-> MkDate(2024, 1, 1), charge |-> 5,
     comment |-> "old", update_date |-> MkDate(2023, 12, 1), last_user |-> <<"z">>]

(***************************************************************************)
(* billing/utils.py: create_client_bill_from_timesheet.  A bill's id is    *)
(* its position in the ClientBill table; quantities are whole days.        *)
(***************************************************************************)
NoCreateResp == [called |-> FALSE]

\* ClientBill(lead=mission.lead), with the defaults of the model's fields
NewClientBill(lead) ==
    [lead |-> lead, state |-> "0_DRAFT", amount |-> None, amount_with_vat |-> None, vat |-> 20]

\* bill.billdetail_set
BillDetailsOf(rows, bill_id) == SelectSeq(rows, LAMBDA d : d.bill = bill_id)

\* ClientBill.save(): compute_bill, then the row stored
ClientBillSave(bills, rows, bill_id) ==
    [bills EXCEPT ![bill_id] = compute_bill(@, BillDetailsOf(rows, bill_id), <<>>)]

\* BillDetail.save(): the amounts of the detail computed, then the row stored
BillDetailSave(rows, d, vat) ==
    Append(rows, [d EXCEPT !.amount = Some(d.quantity * d.unit_price),
                              !.amount_with_vat = Some((d.quantity * d.unit_price * (100 + vat)) \div 100)])

\* Lines 90-91: the sum of the charges per consultant, ordered by consultant
TimesheetData_OfMonth(timesheets, month) ==
    LET rows == {t \in timesheets : /\ toordinal(t.date) >= toordinal(month)
                                    /\ toordinal(t.date) < toordinal(nextMonth(month))}
        consultants == IdList({t.consultant : t \in rows})
    IN  [k \in DOMAIN consultants |->
            [consultant |-> consultants[k],
             charge__sum |-> SumOver({t \in rows : t.consultant = consultants[k]},
                                     [t \in rows |-> t.charge])]]

\* Lines 92-95
RECURSIVE SaveBillDetails(_, _, _, _, _, _)
SaveBillDetails(rows, timesheet_data, bill_id, mission, month, rates) ==
    IF timesheet_data = <<>> THEN rows
    ELSE SaveBillDetails(
             BillDetailSave(rows,
                            [bill |-> bill_id, mission |-> mission.id, month |-> month,
                             consultant |-> Head(timesheet_data).consultant,
                             quantity |-> Head(timesheet_data).charge__sum,
                             unit_price |-> rates[Head(timesheet_data).consultant][1],
                             amount |-> None, amount_with_vat |-> None],
                            20),
             Tail(timesheet_data), bill_id, mission, month, rates)

\* Lines 87-97: the tables after each save of the bill; saves lists, for
\* each bill.save(), the number of details the bill had
CreateBillSteps_NoFinalSave(bills, rows, mission, month, timesheets, rates) ==
    LET bill_id == Len(bills) + 1
        bills1 == ClientBillSave(Append(bills, NewClientBill(mission.lead)), rows, bill_id)
        details1 == SaveBillDetails(rows, TimesheetData_OfMonth(timesheets, month), bill_id,
                                    mission, month, rates)
    IN  [bill |-> bill_id, bills |-> bills1, details |-> details1,
         saves |-> <<Len(BillDetailsOf(rows, bill_id))>>]

CreateBillSteps(bills, rows, mission, month, timesheets, rates) ==
    LET bill_id == Len(bills) + 1
        bills1 == ClientBillSave(Append(bills, NewClientBill(mission.lead)), rows, bill_id)
        details1 == SaveBillDetails(rows, TimesheetData_OfMonth(timesheets, month), bill_id,
                                    mission, month, rates)
        bills2 == ClientBillSave(bills1, details1, bill_id)
    IN  [bill |-> bill_id, bills |-> bills2, details |-> details1,
         saves |-> <<Len(BillDetailsOf(rows, bill_id)), Len(BillDetailsOf(details1, bill_id))>>]

\* timesheets is mission.timesheet_set, rates is mission.consultant_rates()
create_client_bill_from_timesheet(mission, month, timesheets, rates) ==
    /\ createResp = NoCreateResp
    /\ \E r \in {CreateBillSteps(clientBills, billDetails, mission, month, timesheets, rates)} :
          /\ clientBills' = r.bills
          /\ billDetails' = r.details
          /\ createResp' = [called |-> TRUE, mission |-> mission, month |-> month,
                            timesheets |-> timesheets, rates |-> rates,
                            bill |-> r.bill, returned |-> r.bills[r.bill], saves |-> r.saves]
    /\ UNCHANGED <<today, user, timesheetVars, staffingVars, expenseVars, billingVars,
                   csvResp, learnVars, reportVars, massVars>>

\* The bill that was created is deleted with its details
CreatedBillDeleted ==
    /\ createResp # NoCreateResp
    /\ clientBills' = SubSeq(clientBills, 1, createResp.bill - 1)
    /\ billDetails' = SelectSeq(billDetails, LAMBDA d : d.bill # createResp.bill)
    /\ createResp' = NoCreateResp
    /\ UNCHANGED <<today, user, timesheetVars, staffingVars, expenseVars, billingVars,
                   csvResp, learnVars, reportVars, massVars>>

\* Inputs of create_client_bill_from_timesheet
BillMissions == {[id |-> 1, lead |-> 10], [id |-> 2, lead |-> 20]}

BillMonths == {MkDate(2023, 11, 1), MkDate(2023, 12, 1), MkDate(2023, 12, 10)}

BillRates == {[c \in {1, 2} |-> <<c * 100, 0>>], [c \in {1, 2} |-> <<0, 0>>]}

\* A bill made earlier, with its detail
OldClientBill ==
    [lead |-> 10, state |-> "1_SENT", amount |-> Some(500), amount_with_vat |-> Some(600), vat |-> 20]

OldBillDetail ==
    [bill |-> 1, mission |-> 1, month |-> MkDate(2023, 10, 1), consultant |-> 1, quantity |-> 5,
     unit_price |-> 100, amount |-> Some(500), amount_with_vat |-> Some(600)]

(***************************************************************************)
(* Specifications.                                                         *)
(***************************************************************************)
InitTimesheetVars == accReq = NoAccReq /\ timesheet = {} /\ tsResp = NoTsResp

InitStaffingVars == staffing = {} /\ cache = {} /\ stResp = NoStResp

InitExpenseVars ==
    /\ expenses \in [ExpenseIds -> {ExpenseRow(u, "REQUESTED", FirstDay) : u \in ExpenseOwners}]
    /\ exResp = NoExResp
    /\ evResp = NoEvResp

NoExpenses == [e \in ExpenseIds |-> ExpenseRow(<<"a", "b">>, "REQUESTED", FirstDay)]

InitBillingVars ==
    /\ bill = NewBill
    /\ billArg = NoBillCall
    /\ details = <<>>
    /\ billExpenses = <<>>

InitLearnVars ==
    /\ HAVE_SCIKIT = TRUE
    /\ simConsultants = {}
    /\ simCache = <<>>
    /\ simResp = NoSimResp

InitReportVars == reportArg = NoReport /\ reportResp = NoReport

InitMassVars == staffingRows = <<>> /\ massResp = NoMassResp

InitCreateVars == clientBills = <<>> /\ billDetails = <<>> /\ createResp = NoCreateResp

InitOtherVars ==
    csvResp = NoCsvResp /\ InitLearnVars /\ InitReportVars /\ InitMassVars /\ InitCreateVars

InitAccess ==
    /\ today = FirstDay
    /\ user \in AccessUsers
    /\ InitTimesheetVars /\ InitStaffingVars /\ expenses = NoExpenses /\ exResp = NoExResp /\ evResp = NoEvResp
    /\ InitBillingVars /\ InitOtherVars

NextAccess ==
    \/ \E u \in AccessUsers : Login(u)
    \/ Tick
    \/ \E c \in ConsultantIds, ym \in MonthInputs : CheckAccess(c, ym)

SpecAccess == InitAccess /\ [][NextAccess]_vars

InitTimesheet ==
    /\ today = FirstDay
    /\ user \in TimesheetUsers
    /\ InitTimesheetVars /\ InitStaffingVars /\ expenses = NoExpenses /\ exResp = NoExResp /\ evResp = NoEvResp
    /\ InitBillingVars /\ InitOtherVars

NextTimesheet ==
    \/ \E u \in TimesheetUsers : Login(u)
    \/ Tick
    \/ \E c \in RequestedConsultantIds, ym \in {None} \cup {Some(m) : m \in MonthInputs},
          req \in TimesheetRequests : consultant_timesheet(c, ym, req)

SpecTimesheet == InitTimesheet /\ [][NextTimesheet]_vars

InitStaffing ==
    /\ today = FirstDay
    /\ user \in StaffingUsers
    /\ InitTimesheetVars /\ InitStaffingVars /\ expenses = NoExpenses /\ exResp = NoExResp /\ evResp = NoEvResp
    /\ InitBillingVars /\ InitOtherVars

NextStaffing ==
    \/ \E u \in StaffingUsers : Login(u)
    \/ \E k \in MissionCacheKeys, m \in MissionIds : CacheWork(k, m)
    \/ \E m \in RequestedMissionIds, mode \in {"manual", "automatic"} :
          \E req \in StaffingRequests(MissionFormRows(m)) : mission_staffing(m, mode, req)
    \/ \E c \in StaffedConsultantIds \cup {0} :
          \E req \in StaffingRequests(ConsultantFormRows(c)) : consultant_staffing(c, req)

SpecStaffing == InitStaffing /\ [][NextStaffing]_vars

InitExpense ==
    /\ today = FirstDay
    /\ user \in ExpenseUsers
    /\ InitTimesheetVars /\ InitStaffingVars /\ InitExpenseVars /\ InitBillingVars /\ InitOtherVars

NextExpense ==
    \/ \E u \in ExpenseUsers : Login(u)
    \/ \E e \in RequestedExpenseIds, t \in RequestedTransitionIds : update_expense_state(e, t)

SpecExpense == InitExpense /\ [][NextExpense]_vars

\* The Expense table the expenses view starts from: one expense of a consultant
\* or of the consultant's manager, last saved 30 or 31 days ago
InitExpenseView ==
    /\ today = FirstDay
    /\ user \in ExpenseViewUsers
    /\ InitTimesheetVars /\ InitStaffingVars /\ InitBillingVars /\ InitOtherVars
    /\ expenses \in [{1} -> {[ExpenseRow(u, st, AddDays(FirstDay, -d))
                                   EXCEPT !.editors = IF all THEN Usernames ELSE {u}] :
                               u \in ExpenseOwners, st \in {"REQUESTED", "PAID"},
                               d \in {PruneDays, PruneDays + 1}, all \in BOOLEAN}]
    /\ exResp = NoExResp
    /\ evResp = NoEvResp

NextExpenseView ==
    \/ \E u \in ExpenseViewUsers : Login(u)
    \/ \E e \in {None} \cup {Some(i) : i \in 0..MaxExpenses}, req \in ExpenseViewRequests :
          expenses_view(e, req)

SpecExpenseView == InitExpenseView /\ [][NextExpenseView]_vars

InitCsv ==
    /\ today = FirstDay
    /\ user = MkUser(<<"a", "b">>, {}, {"reports"}, {})
    /\ InitTimesheetVars /\ InitStaffingVars /\ expenses = NoExpenses /\ exResp = NoExResp /\ evResp = NoEvResp
    /\ InitBillingVars /\ InitOtherVars

NextCsv ==
    \/ CsvSent
    \/ \E consultant \in CsvNames, days \in CsvDays, missions \in CsvMissions :
          \E charges \in [DOMAIN missions -> [DOMAIN days -> CsvCharges]] :
              consultant_csv_timesheet(consultant, days, MkDate(2024, 1, 1), missions, charges)
    \/ \E rows \in SeqsUpTo(CsvRows, MaxCsvItems) : mission_csv_timesheet(rows)
    \/ \E charges \in SeqsUpTo(CsvRows \ {<<>>}, MaxCsvItems), ym \in {<<2023, 12>>, <<2024, 1>>} :
          all_csv_timesheet(charges, MonthDate(ym))
    \/ \E ym \in {None} \cup {Some(m) : m \in MonthInputs},
          missions \in SeqsUpTo(DetailedMissions, 1) : detailed_csv_timesheet(ym, missions)

SpecCsv == InitCsv /\ [][NextCsv]_vars

InitLearn ==
    /\ today = FirstDay
    /\ user = MkUser(<<"a", "b">>, {}, {}, {})
    /\ InitTimesheetVars /\ InitStaffingVars /\ expenses = NoExpenses /\ exResp = NoExResp /\ evResp = NoEvResp
    /\ InitBillingVars /\ csvResp = NoCsvResp /\ InitReportVars /\ InitMassVars /\ InitCreateVars
    /\ HAVE_SCIKIT \in BOOLEAN
    /\ simConsultants = {}
    /\ simCache = <<>>
    /\ simResp = NoSimResp

NextLearn ==
    \/ compute_consultant_similarity
    \/ SimilarityResultUsed
    \/ \E c \in 1..MaxSimConsultants : ConsultantJoins(c)
    \/ \E c \in 1..MaxSimConsultants : ConsultantLeaves(c)
    \/ \E key \in {CONSULTANT_SIMILARITY_MODEL_CACHE_KEY, SIMILARITY_CONSULTANT_IDS_CACHE_KEY} :
          CacheExpires(key)

SpecLearn == InitLearn /\ [][NextLearn]_vars

\* The specifications of the reports start alike
InitReport ==
    /\ today = FirstDay
    /\ user = MkUser(<<"a", "b">>, {}, {"staffing_mass", "reports"}, {})
    /\ InitTimesheetVars /\ InitStaffingVars /\ expenses = NoExpenses /\ exResp = NoExResp /\ evResp = NoEvResp
    /\ InitBillingVars /\ InitOtherVars

NextPdc ==
    \/ ReportSent
    \/ \E ym \in {None, Some(<<2024, 1>>)}, n \in {None, Some(13)},
          projection \in PdcProjectionParams, rows \in SubsetsUpTo(PdcStaffingRows, MaxReportStaffings) :
          pdc_review(ym, n, projection, rows)

SpecPdc == InitReport /\ [][NextPdc]_vars

NextProdReport ==
    \/ ReportSent
    \/ \E ym \in {None, Some(<<2023, 11>>), Some(<<2024, 2>>)}, d \in ProdMonthInputs,
          focus \in {1, ProdReportNMonth} :
          prod_report(ym, [k \in 1..ProdReportNMonth |-> IF k = focus THEN d ELSE ProdEmptyMonth])

SpecProdReport == InitReport /\ [][NextProdReport]_vars

NextMissionTimesheet ==
    \/ ReportSent
    \/ \E ajax \in BOOLEAN,
          ts \in {r \in SubsetsUpTo(MissionTimesheetRows, MaxMissionRows) : OneRowPerDate(r)},
          st \in {r \in SubsetsUpTo(MissionStaffingRows, MaxMissionRows) : OneRowPerDate(r)} :
          mission_timesheet(ajax, <<1, 2>>, MissionConsultantRates, ts, st)

SpecMissionTimesheet == InitReport /\ [][NextMissionTimesheet]_vars

InitMass ==
    /\ today = FirstDay
    /\ user \in {MkUser(<<"a", "b">>, {}, {"staffing_mass"}, {}),
                 MkUser(<<"b", "a">>, {}, {"staffing_mass"}, {})}
    /\ InitTimesheetVars /\ InitStaffingVars /\ expenses = NoExpenses /\ exResp = NoExResp /\ evResp = NoEvResp
    /\ InitBillingVars /\ csvResp = NoCsvResp /\ InitLearnVars /\ InitReportVars /\ InitCreateVars
    /\ staffingRows \in {<<>>, <<MassOldRow>>}
    /\ massResp = NoMassResp

NextMass ==
    \/ MassResponseSent
    \/ \E method \in {"GET", "POST"}, form \in {None} \cup {Some(f) : f \in MassForms} :
          mass_staffing(method, form)

SpecMass == InitMass /\ [][NextMass]_vars

InitCreateBill ==
    /\ today = FirstDay
    /\ user = MkUser(<<"a", "b">>, {}, {}, {})
    /\ InitTimesheetVars /\ InitStaffingVars /\ expenses = NoExpenses /\ exResp = NoExResp /\ evResp = NoEvResp
    /\ InitBillingVars /\ csvResp = NoCsvResp /\ InitLearnVars /\ InitReportVars /\ InitMassVars
    /\ \E old \in BOOLEAN :
          /\ clientBills = IF old THEN <<OldClientBill>> ELSE <<>>
          /\ billDetails = IF old THEN <<OldBillDetail>> ELSE <<>>
    /\ createResp = NoCreateResp

NextCreateBill ==
    \/ CreatedBillDeleted
    \/ \E mission \in BillMissions, month \in BillMonths, rates \in BillRates,
          ts \in {r \in SubsetsUpTo(MissionTimesheetRows, MaxMissionRows) : OneRowPerDate(r)} :
          create_client_bill_from_timesheet(mission, month, ts, rates)

SpecCreateBill == InitCreateBill /\ [][NextCreateBill]_vars

InitBilling ==
    /\ today = FirstDay
    /\ user = MkUser(<<"a", "b">>, {}, {}, {})
    /\ InitTimesheetVars /\ InitStaffingVars /\ expenses = NoExpenses /\ exResp = NoExResp /\ evResp = NoEvResp
    /\ InitBillingVars /\ InitOtherVars

NextBilling ==
    \/ \E d \in DetailInputs : AddDetail(d)
    \/ \E i \in 1..MaxDetails : RemoveDetail(i)
    \/ \E i \in 1..MaxDetails, d \in DetailInputs : ChangeDetail(i, d)
    \/ \E e \in BillExpenseInputs : AddExpense(e)
    \/ \E i \in 1..MaxBillExpenses : RemoveExpense(i)
    \/ \E st \in BillStates, a \in BillAmounts, w \in BillAmountsWithVat, v \in BillVats :
          SaveBill(st, a, w, v)

SpecBilling == InitBilling /\ [][NextBilling]_vars

(***************************************************************************)
(* Properties of compute_bill (SpecBilling).                               *)
(***************************************************************************)
\* The value of an optional amount, an unset one counting for zero
AmountOf(x) == IF x = None THEN 0 ELSE x[1]

RowChanged ==
    billArg.op \in {"add detail", "change detail", "remove detail", "add expense", "remove expense"}

RECURSIVE SumOf(_, _)
SumOf(f, i) == IF i = 0 THEN 0 ELSE f[i] + SumOf(f, i - 1)

\* Sum of the amounts of the current details plus the total of the expenses
C1_Total ==
    SumOf([i \in DOMAIN details |-> AmountOf(details[i].amount)], Len(details))
    + SumOf([i \in DOMAIN billExpenses |-> billExpenses[i].amount], Len(billExpenses))

\* C1: for a bill in state 0_DRAFT or 0_PROPOSED, after a detail or an expense
\* was added, changed or removed and compute_bill ran, the bill's amount is the
\* sum of the amounts of its details plus its expenses total, also when that
\* sum is zero.
C1_AmountIsSumOfDetailsAndExpenses ==
    (RowChanged /\ bill.state \in {"0_DRAFT", "0_PROPOSED"})
        => AmountOf(bill.amount) = C1_Total

\* compute_bill ran on a bill whose amount_with_vat was unset
C2_Case == billArg.op # "none" /\ ~Truthy(billArg.bill.amount_with_vat)

\* b.amount_with_vat = b.amount * (1 + b.vat / 100)
C2_VatApplied(b) ==
    /\ b.amount_with_vat # None
    /\ 100 * b.amount_with_vat[1] = b.amount[1] * (100 + b.vat)

\* C2 as stated: compute_bill on a bill whose amount_with_vat is unset sets it
\* to amount * (1 + vat / 100) when the amount is set, and leaves it unset when
\* the amount is unset too.
C2_VatFromAmountWhenUnset ==
    C2_Case =>
        IF Truthy(billArg.bill.amount)
        THEN C2_VatApplied(bill)
        ELSE ~Truthy(bill.amount_with_vat)

\* The details and expenses give the bill no amount with VAT: the bill is not
\* a draft, or their total with VAT is zero
C2_NoVatFromRows ==
    \/ billArg.bill.state \notin {"0_DRAFT", "0_PROPOSED"}
    \/ SumOf([i \in DOMAIN details |-> AmountOf(details[i].amount_with_vat)], Len(details))
       + SumOf([i \in DOMAIN billExpenses |-> billExpenses[i].amount_with_vat], Len(billExpenses)) = 0

\* C2 amended: compute_bill on a bill whose amount_with_vat is unset, and to
\* which the details and expenses give no amount with VAT, sets amount_with_vat
\* to amount * (1 + vat / 100) for the amount the bill has after the call when
\* that amount is set, and leaves it unset when that amount is unset.
C2_VatFromAmountWhenUnsetAndNoRowVat ==
    (C2_Case /\ C2_NoVatFromRows) =>
        IF Truthy(bill.amount)
        THEN C2_VatApplied(bill)
        ELSE bill.amount_with_vat = billArg.bill.amount_with_vat

C2_Witness ==
    /\ C2_Case /\ C2_NoVatFromRows
    /\ billArg.bill.state = "0_DRAFT"
    /\ ~Truthy(billArg.bill.amount)
    /\ Len(details) > 0
    /\ Truthy(bill.amount)
    /\ C2_VatApplied(bill)

(***************************************************************************)
(* Properties of update_expense_state (SpecExpense).                       *)
(***************************************************************************)
\* The requested expense exists and belongs to the user, who is no administrator
C9_OwnExpense ==
    /\ exResp.status # "none"
    /\ exResp.expense \in ExpenseIds
    /\ expenses[exResp.expense].user = user.username
    /\ "expense administrator" \notin user.roles

\* C9: update_expense_state performs no workflow transition on an expense of
\* the requesting user unless the user is an expense administrator: the answer
\* is the message "You cannot manage your own expense !" with a redirect,
\* wf.do_transition is not called and the state of the expense stays.
C9_NoTransitionOnOwnExpense ==
    /\ [](C9_OwnExpense =>
            /\ exResp.message = "You cannot manage your own expense !"
            /\ exResp.status = "redirect to expenses"
            /\ exResp.do_transition = "not called")
    /\ [][\A e \in ExpenseIds :
            (expenses[e].user = user.username /\ "expense administrator" \notin user.roles)
                => expenses'[e] = expenses[e]]_vars

C9_Witness ==
    /\ C9_OwnExpense
    /\ exResp.transition \in TransitionIds
    /\ Transitions[exResp.transition].source = expenses[exResp.expense].state
    /\ Transitions[exResp.transition].role \in user.roles
    /\ exResp.do_transition = "not called"

C10_MissingId ==
    /\ exResp.status # "none"
    /\ (exResp.expense \notin ExpenseIds \/ exResp.transition \notin TransitionIds)

\* C10: called with an expense id or a transition id that does not exist,
\* update_expense_state records a message and redirects to the expenses page
\* without calling wf.do_transition, and no expense changes state; the success
\* message is recorded only when wf.do_transition returned true.
C10_MissingIdsAreReported ==
    /\ [](C10_MissingId =>
            /\ exResp.message \in {"Expense does not exist", "Transition does not exist",
                                   "You cannot manage your own expense !"}
            /\ exResp.expense \notin ExpenseIds => exResp.message = "Expense does not exist"
            /\ exResp.status = "redirect to expenses"
            /\ exResp.do_transition = "not called")
    /\ [](exResp.message = "Successfully update expense" => exResp.do_transition = "true")
    /\ [][(exResp'.status # "none"
             /\ (exResp'.expense \notin ExpenseIds \/ exResp'.transition \notin TransitionIds))
            => expenses' = expenses]_vars

C10_Witness ==
    /\ C10_MissingId
    /\ exResp.expense \in ExpenseIds
    /\ expenses[exResp.expense].user # user.username
    /\ exResp.message = "Transition does not exist"
    /\ \E e \in ExpenseIds : expenses[e].state # "REQUESTED"

(***************************************************************************)
(* Properties of the expenses view (SpecExpenseView).                      *)
(***************************************************************************)
NotAllowedMessage == "You are not allowed to edit that expense"

\* The user holds expense_edit on expense e, and e belongs to the user or to a
\* member of the user's team
C11_MayEdit(e) ==
    /\ user.username \in expenses[e].editors
    /\ (expenses[e].user = user.username \/ expenses[e].user \in user_team_of(user))

\* The step is an expenses request naming the stored expense e, which the user
\* may not edit
C11_RefusedRequest(e) ==
    /\ evResp'.status # "none"
    /\ evResp'.expense_id = Some(e)
    /\ ~C11_MayEdit(e)

\* C11 as stated: an expenses request (GET or POST) naming an expense on which
\* the user lacks expense_edit, or that belongs neither to the user nor to the
\* user's team, never modifies that expense: the user gets the message "You
\* are not allowed to edit that expense" and the page is rendered with
\* modify_expense false.
C11_RefusedEditRendersPage ==
    [][\A e \in DOMAIN expenses :
          C11_RefusedRequest(e) =>
              /\ expenses'[e] = expenses[e]
              /\ NotAllowedMessage \in evResp'.messages
              /\ evResp'.status = "render"
              /\ ~evResp'.modify_expense]_vars

\* C11 amended: such a request never modifies that expense.  A user outside the
\* group expense_requester is redirected to the forbidden page without a
\* message.  A user of the group gets the message "You are not allowed to edit
\* that expense"; a POST with a valid form then creates a new expense and
\* redirects to the expenses page, any other request renders the page with
\* modify_expense false.
C11_RefusedEditLeavesExpense ==
    [][\A e \in DOMAIN expenses :
          C11_RefusedRequest(e) =>
              /\ expenses'[e] = expenses[e]
              /\ IF "expense_requester" \notin user.groups
                 THEN /\ evResp'.status = "redirect to forbiden"
                      /\ evResp'.messages = {}
                      /\ expenses' = expenses
                 ELSE /\ NotAllowedMessage \in evResp'.messages
                      /\ ~evResp'.modify_expense
                      /\ IF evResp'.method = "POST" /\ evResp'.valid
                         THEN /\ evResp'.status = "redirect to expenses"
                              /\ evResp'.created \notin DOMAIN expenses
                              /\ evResp'.created \in DOMAIN expenses'
                              /\ expenses'[evResp'.created].user = user.username
                         ELSE /\ evResp'.status = "render"
                              /\ expenses' = expenses]_vars

\* A valid POST named an expense of another user on which the user holds
\* expense_edit without being its owner's manager: the named expense is as it
\* was and a new expense was created
C11_Witness ==
    /\ evResp.status = "redirect to expenses"
    /\ evResp.method = "POST" /\ evResp.valid
    /\ evResp.expense_id = Some(1)
    /\ evResp.created = 2
    /\ NotAllowedMessage \in evResp.messages
    /\ user.username \in expenses[1].editors
    /\ expenses[1].user # user.username
    /\ expenses[1].user \notin user_team_of(user)
    /\ expenses[1].amount # expenses[2].amount

\* C12: after the expenses view has run, every expense in a terminal workflow
\* state (no outgoing transition) whose update_date is more than 30 days old
\* has workflow_in_progress = False in the stored data.
C12_OldTerminalExpensesPruned ==
    evResp.status = "render" =>
        \A e \in DOMAIN expenses :
            (IsTerminalState(expenses[e].state)
             /\ DaysBetween(today, expenses[e].update_date) > 30)
                => ~expenses[e].workflow_in_progress

(***************************************************************************)
(* Properties of the CSV exports (SpecCsv).                                *)
(***************************************************************************)
\* The text of a quoted field, its doubled quotes read as one
RECURSIVE CsvUndouble(_)
CsvUndouble(t) ==
    IF t = <<>> THEN <<>>
    ELSE IF Head(t) = "\"" /\ Len(t) > 1 /\ t[2] = "\""
    THEN <<"\"">> \o CsvUndouble(SubSeq(t, 3, Len(t)))
    ELSE <<Head(t)>> \o CsvUndouble(Tail(t))

\* Position of the quote that closes the quoted field opened at position i
CsvClosingQuote(s, i) ==
    MinOf({k \in (i + 1)..Len(s) :
              /\ s[k] = "\""
              /\ Cardinality({q \in (i + 1)..(k - 1) : s[q] = "\""}) % 2 = 0
              /\ (k = Len(s) \/ s[k + 1] # "\"")})

\* Position after the unquoted field that starts at position i
CsvFieldEnd(s, i, delimiter) ==
    MinOf({k \in i..Len(s) :
              \/ s[k] = delimiter
              \/ (s[k] = "\r" /\ k < Len(s) /\ s[k + 1] = "\n")} \cup {Len(s) + 1})

\* The rows a reader of the excel dialect finds in text s from position i on,
\* with the given delimiter; a field starts at i and row holds the fields of
\* its row read so far
RECURSIVE CsvRead(_, _, _, _)
CsvRead(s, i, delimiter, row) ==
    IF i > Len(s) THEN (IF row = <<>> THEN <<>> ELSE <<row>>)
    ELSE IF row = <<>> /\ s[i] = "\r" /\ i < Len(s) /\ s[i + 1] = "\n"
    THEN << <<>> >> \o CsvRead(s, i + 2, delimiter, <<>>)
    ELSE LET quoted == s[i] = "\""
             next == IF quoted THEN CsvClosingQuote(s, i) + 1 ELSE CsvFieldEnd(s, i, delimiter)
             field == IF quoted THEN CsvUndouble(SubSeq(s, i + 1, next - 2))
                      ELSE SubSeq(s, i, next - 1)
         IN  IF next > Len(s) THEN <<Append(row, field)>>
             ELSE IF s[next] = delimiter
             THEN CsvRead(s, next + 1, delimiter, Append(row, field))
             ELSE <<Append(row, field)>> \o CsvRead(s, next + 2, delimiter, <<>>)

\* Positions of s at which the byte order mark starts
BomPositions(s) ==
    {i \in 1..(Len(s) - 2) : SubSeq(s, i, i + 2) = BOM_UTF8}

CsvViews ==
    {"consultant_csv_timesheet", "mission_csv_timesheet", "all_csv_timesheet",
     "detailed_csv_timesheet"}

\* C13: every CSV export (consultant_csv_timesheet, mission_csv_timesheet,
\* all_csv_timesheet, detailed_csv_timesheet) writes the UTF-8 byte order mark
\* to the response before any row, exactly once, and writes all rows with ';'
\* as delimiter: what follows the mark reads back, with ';' as delimiter, as
\* the rows the export was given.
C13_BomFirstAndSemicolonRows ==
    csvResp.view \in CsvViews =>
        /\ BomPositions(csvResp.content) = {1}
        /\ CsvRead(csvResp.content, Len(BOM_UTF8) + 1, ";", <<>>) = csvResp.rows

\* An export wrote rows whose cells hold the delimiter and quotes
C13_Witness ==
    /\ csvResp.view = "all_csv_timesheet"
    /\ Len(csvResp.rows) = 3
    /\ \E i \in DOMAIN csvResp.rows : \E j \in DOMAIN csvResp.rows[i] :
          \E k \in DOMAIN csvResp.rows[i][j] : csvResp.rows[i][j][k] = ";"
    /\ \E i \in DOMAIN csvResp.rows : \E j \in DOMAIN csvResp.rows[i] :
          \E k \in DOMAIN csvResp.rows[i][j] : csvResp.rows[i][j][k] = "\""

(***************************************************************************)
(* Properties of compute_consultant_similarity (SpecLearn).                *)
(***************************************************************************)
\* The step is a call of compute_consultant_similarity
C14_Call == simResp = NoSimResp /\ simResp' # NoSimResp

SevenDays == 7 * 24 * 60 * 60

\* The call returns None and writes nothing to the cache
C14_NoneAndNoWrite ==
    /\ simResp'.result = None
    /\ ~simResp'.fitted
    /\ simCache' = simCache

\* The call fits a model on the consultants, returns it and stores it and the
\* list of the consultants' ids under their keys, both for seven days
C14_FitAndStore ==
    /\ simResp'.fitted
    /\ simResp'.result = Some([fitted_on |-> simConsultants])
    /\ DOMAIN simCache' = DOMAIN simCache \cup {CONSULTANT_SIMILARITY_MODEL_CACHE_KEY,
                                                SIMILARITY_CONSULTANT_IDS_CACHE_KEY}
    /\ simCache'[CONSULTANT_SIMILARITY_MODEL_CACHE_KEY] =
           [value |-> [fitted_on |-> simConsultants], timeout |-> SevenDays]
    /\ simCache'[SIMILARITY_CONSULTANT_IDS_CACHE_KEY].timeout = SevenDays
    /\ LET ids == simCache'[SIMILARITY_CONSULTANT_IDS_CACHE_KEY].value
       IN  /\ Len(ids) = Cardinality(simConsultants)
           /\ {ids[i] : i \in DOMAIN ids} = simConsultants

\* The call returns the cached model without fitting or writing
C14_ReturnCached ==
    /\ simResp'.result = Some(simCache[CONSULTANT_SIMILARITY_MODEL_CACHE_KEY].value)
    /\ ~simResp'.fitted
    /\ simCache' = simCache

\* C14 as stated: compute_consultant_similarity returns None and writes nothing
\* to the cache when scikit is unavailable or when fewer than 5 active,
\* productive, non-subcontractor consultants exist; otherwise, on a cache miss
\* it fits a model and stores the model and the list of consultant ids under
\* their two keys with the same 7-day lifetime, and on a cache hit it returns
\* the cached model without refitting or rewriting either key.
C14_NoneWhenFewConsultants ==
    [][C14_Call =>
          IF ~HAVE_SCIKIT \/ Cardinality(simConsultants) < 5
          THEN C14_NoneAndNoWrite
          ELSE IF CONSULTANT_SIMILARITY_MODEL_CACHE_KEY \notin DOMAIN simCache
          THEN C14_FitAndStore
          ELSE C14_ReturnCached]_vars

\* C14 amended: compute_consultant_similarity returns None and writes nothing
\* to the cache when scikit is unavailable; with scikit, on a cache hit it
\* returns the cached model without refitting or rewriting either key, however
\* many consultants exist; on a cache miss it returns None and writes nothing
\* when fewer than 5 active, productive, non-subcontractor consultants exist,
\* and otherwise fits a model and stores the model and the list of consultant
\* ids under their two keys with the same 7-day lifetime.
C14_CacheHitBeforeCount ==
    [][C14_Call =>
          IF ~HAVE_SCIKIT
          THEN C14_NoneAndNoWrite
          ELSE IF CONSULTANT_SIMILARITY_MODEL_CACHE_KEY \in DOMAIN simCache
          THEN C14_ReturnCached
          ELSE IF Cardinality(simConsultants) < 5
          THEN C14_NoneAndNoWrite
          ELSE C14_FitAndStore]_vars

\* A call found the model in the cache while fewer than 5 consultants were left
C14_Witness ==
    /\ simResp.called
    /\ ~simResp.fitted
    /\ simResp.result # None
    /\ Cardinality(simConsultants) < 5
    /\ CONSULTANT_SIMILARITY_MODEL_CACHE_KEY \in DOMAIN simCache
    /\ SIMILARITY_CONSULTANT_IDS_CACHE_KEY \notin DOMAIN simCache

(***************************************************************************)
(* Properties of pdc_review (SpecPdc).                                     *)
(***************************************************************************)
\* The projection the parameter asks for; an absent or unrecognised one is "balanced"
C15_Mode ==
    IF reportArg.projection \in {Some("none"), Some("full")}
    THEN reportArg.projection[1]
    ELSE "balanced"

\* What a staffing row counts for, in hundredths of a day
C15_Weight(r) ==
    LET probability == PdcMissions[r.mission].probability
    IN  CASE C15_Mode = "none" -> IF probability = 100 THEN 100 * r.charge ELSE 0
          [] C15_Mode = "balanced" -> IF probability > 0 THEN probability * r.charge ELSE 0
          [] C15_Mode = "full" -> IF probability > 0 THEN 100 * r.charge ELSE 0

\* The weights of the rows of consultant c for month m whose mission has nature n
C15_Bucket(c, m, n) ==
    LET S == {r \in reportArg.rows : r.consultant = c /\ r.staffing_date = m
                                     /\ PdcMissions[r.mission].nature = n}
    IN  SumOver(S, [r \in S |-> C15_Weight(r)])

\* C15: in pdc_review each staffing charge of a consultant for a month is added
\* to exactly one of the buckets prod, unprod or holidays according to its
\* mission nature: projection "none" counts only missions with probability 100,
\* at full charge; "balanced" counts missions with probability > 0, each charge
\* multiplied by probability/100; "full" counts missions with probability > 0
\* at full charge; an absent or unrecognised projection behaves as "balanced".
C15_ChargesBucketedByNature ==
    reportResp.view = "pdc_review" =>
        \A c \in PdcConsultants : \A k \in DOMAIN reportResp.months :
            LET m == reportResp.months[k]
            IN  /\ reportResp.staffing[c][k].prod = C15_Bucket(c, m, "PROD")
                /\ reportResp.staffing[c][k].unprod = C15_Bucket(c, m, "NONPROD")
                /\ reportResp.staffing[c][k].holidays = C15_Bucket(c, m, "HOLIDAYS")

\* A review without projection parameter weighted a charge on a mission of
\* probability 50 and left out one on a mission of probability 0
C15_Witness ==
    /\ reportResp.view = "pdc_review"
    /\ reportArg.projection = None
    /\ \E r \in reportArg.rows : PdcMissions[r.mission].probability = 0
    /\ \E k \in DOMAIN reportResp.months :
          /\ reportResp.staffing[1][k].prod = 150
          /\ reportResp.staffing[1][k].unprod = 0
          /\ reportResp.total[k].prod = 150

(***************************************************************************)
(* Properties of prod_report (SpecProdReport).                             *)
(***************************************************************************)
\* a < b on rates
C16_Below(a, b) == a.num * b.den < b.num * a.den

\* The status the claim gives to an entry
C16_Status(e) ==
    CASE e.turnover >= e.forecast /\ C16_Below(e.prod_rate, e.prod_rate_obj) -> "ok_but_prod_date"
      [] e.turnover >= e.forecast /\ ~C16_Below(e.prod_rate, e.prod_rate_obj)
         /\ C16_Below(e.daily_rate, e.daily_rate_obj) -> "ok_but_daily_rate"
      [] e.turnover >= e.forecast /\ ~C16_Below(e.prod_rate, e.prod_rate_obj)
         /\ ~C16_Below(e.daily_rate, e.daily_rate_obj) -> "ok"
      [] e.turnover < e.forecast /\ ~C16_Below(e.prod_rate, e.prod_rate_obj) -> "ko_but_prod_date"
      [] e.turnover < e.forecast /\ C16_Below(e.prod_rate, e.prod_rate_obj)
         /\ ~C16_Below(e.daily_rate, e.daily_rate_obj) -> "ko_but_daily_rate"
      [] e.turnover < e.forecast /\ C16_Below(e.prod_rate, e.prod_rate_obj)
         /\ C16_Below(e.daily_rate, e.daily_rate_obj) -> "ko"

\* C16: prod_report gives each consultant and month exactly one of six
\* statuses: with turnover >= forecast, ok_but_prod_date if prod_rate <
\* prod_rate_obj, else ok_but_daily_rate if daily_rate < daily_rate_obj, else
\* ok; with turnover < forecast, ko_but_prod_date if prod_rate >=
\* prod_rate_obj, else ko_but_daily_rate if daily_rate >= daily_rate_obj, else
\* ko.  Without PROD and NONPROD days prod_rate and daily_rate are 0, and a
\* missing rate objective gives forecast 0 and both objectives 0.
C16_SixStatuses ==
    reportResp.view = "prod_report" =>
        \A k \in DOMAIN reportResp.data :
            LET e == reportResp.data[k]
                d == reportArg.days[k]
            IN  /\ e.status = all_status[C16_Status(e)]
                /\ (d.PROD = 0 /\ d.NONPROD = 0) => (e.prod_rate.num = 0 /\ e.daily_rate.num = 0)
                /\ (d.daily_rate_obj = None \/ d.prod_rate_obj = None) =>
                       (e.forecast = 0 /\ e.prod_rate_obj.num = 0 /\ e.daily_rate_obj.num = 0)

C16_Reached(status) ==
    /\ reportResp.view = "prod_report"
    /\ \E k \in DOMAIN reportResp.data : reportResp.data[k].status = all_status[status]

\* A report held a month of status ko_but_daily_rate next to months without
\* timesheets nor objectives, which are ok with rates 0
C16_Witness ==
    /\ C16_Reached("ko_but_daily_rate")
    /\ \E k \in DOMAIN reportResp.data :
          /\ reportArg.days[k].PROD = 0 /\ reportArg.days[k].NONPROD = 0
          /\ reportArg.days[k].daily_rate_obj = None
          /\ reportResp.data[k].status = all_status.ok
    /\ Len(reportResp.months) = ProdReportNMonth

(***************************************************************************)
(* Properties of mission_timesheet (SpecMissionTimesheet).                 *)
(***************************************************************************)
\* The charges of the consultant's rows of a month
C17_Days(rows, consultant, month) ==
    SumOver({r \in rows : r.consultant = consultant /\ r.date.year = month.year
                          /\ r.date.month = month.month},
            [r \in rows |-> r.charge])

\* The timesheets the page shows: those up to the end of the current month
C17_Shown(current_month) ==
    {t \in reportArg.timesheets :
        t.date.year < current_month.year
        \/ (t.date.year = current_month.year /\ t.date.month <= current_month.month)}

C17_Rendered == reportResp.view = "mission_timesheet" /\ reportResp.status = "render"

C17_LastTimesheetMonthIsCurrent ==
    /\ reportResp.timesheet_months # <<>>
    /\ reportResp.timesheet_months[Len(reportResp.timesheet_months)] = reportResp.current_month

\* C17: in mission_timesheet, for each consultant, when the last timesheet
\* month is the current month, the forecast of the current month is the
\* staffing charge of that month minus the consultant's days of the current
\* month's timesheet, floored at 0; the forecasts of the other months are the
\* raw staffing sums; the estimated days are the total timesheet days plus the
\* total of the (adjusted) forecasts.
C17_ForecastNetOfTimesheet ==
    C17_Rendered =>
        \A i \in DOMAIN reportArg.consultants :
            LET row == reportResp.mission_data[i]
                c == reportArg.consultants[i]
                cur == reportResp.current_month
                months == reportResp.staffing_months
                net == C17_Days(reportArg.staffings, c, cur) - C17_Days(reportArg.timesheets, c, cur)
            IN  /\ row.consultant = Some(c)
                /\ \A k \in DOMAIN months :
                      /\ (months[k] = cur /\ C17_LastTimesheetMonthIsCurrent) =>
                             row.staffing[k] = (IF net < 0 THEN 0 ELSE net)
                      /\ months[k] # cur =>
                             row.staffing[k] = C17_Days(reportArg.staffings, c, months[k])
                /\ row.estimated[1] =
                       SumOver(C17_Shown(cur) \cap {t \in reportArg.timesheets : t.consultant = c},
                               [t \in reportArg.timesheets |-> t.charge])
                       + SumSeq([k \in DOMAIN months |-> row.staffing[k]])

\* The page showed a consultant whose days of the current month exceed the
\* staffing of that month, next to the raw staffing of a later month
C17_Witness ==
    /\ C17_Rendered
    /\ C17_LastTimesheetMonthIsCurrent
    /\ Len(reportResp.staffing_months) = 2
    /\ \E i \in DOMAIN reportArg.consultants :
          /\ C17_Days(reportArg.staffings, reportArg.consultants[i], reportResp.current_month) > 0
          /\ C17_Days(reportArg.timesheets, reportArg.consultants[i], reportResp.current_month)
                > C17_Days(reportArg.staffings, reportArg.consultants[i], reportResp.current_month)
          /\ reportResp.mission_data[i].staffing[1] = 0
          /\ reportResp.mission_data[i].staffing[2] > 0

\* The page showed a forecast of the current month reduced by the timesheet
C17_WitnessReduced ==
    /\ C17_Rendered
    /\ \E i \in DOMAIN reportArg.consultants :
          /\ reportResp.mission_data[i].staffing # <<>>
          /\ reportResp.mission_data[i].staffing[1] = 1

(***************************************************************************)
(* Properties of mass_staffing (SpecMass).                                 *)
(***************************************************************************)
C18_Key(row) == <<row.mission, row.consultant, row.staffing_date>>

C18_RowsOf(rows, t) == {i \in DOMAIN rows : C18_Key(rows[i]) = t}

\* The (mission, consultant, staffing date) triples a form selects
C18_Selection(form) ==
    {<<m, c, MkDate(form.staffing_dates[k][1], form.staffing_dates[k][2], form.staffing_dates[k][3])>> :
        m \in form.missions,
        c \in (IF form.all_consultants THEN {x.id : x \in {y \in Consultants : ~y.subcontractor}}
               ELSE form.consultants),
        k \in DOMAIN form.staffing_dates}

\* C18: after a valid mass_staffing submission every selected (mission,
\* consultant, staffing date) triple has exactly one Staffing record, with
\* the submitted charge and comment and the submitting user as last_user;
\* submitting a form whose records are already there creates no record and
\* leaves charge and comment as they were; records of triples outside the
\* selection are untouched.
C18_MassStaffingUpserts ==
    [][(massResp = NoMassResp /\ massResp'.status = "redirect") =>
        LET form == massResp'.form[1]
            sel == C18_Selection(form)
        IN  /\ \A t \in sel :
                  /\ Cardinality(C18_RowsOf(staffingRows', t)) = 1
                  /\ \A i \in C18_RowsOf(staffingRows', t) :
                        /\ staffingRows'[i].charge = form.charge
                        /\ staffingRows'[i].comment = form.comment
                        /\ staffingRows'[i].last_user = user.username
            /\ \A i \in DOMAIN staffingRows :
                  C18_Key(staffingRows[i]) \notin sel =>
                      (i \in DOMAIN staffingRows' /\ staffingRows'[i] = staffingRows[i])
            /\ {C18_Key(staffingRows'[i]) : i \in DOMAIN staffingRows'}
                   = {C18_Key(staffingRows[i]) : i \in DOMAIN staffingRows} \cup sel
            /\ (\A t \in sel : \E i \in C18_RowsOf(staffingRows, t) :
                    staffingRows[i].charge = form.charge /\ staffingRows[i].comment = form.comment)
                   => /\ Len(staffingRows') = Len(staffingRows)
                      /\ \A i \in DOMAIN staffingRows :
                            /\ staffingRows'[i].charge = staffingRows[i].charge
                            /\ staffingRows'[i].comment = staffingRows[i].comment
    ]_vars

\* A valid submission of several triples found all of its records and
\* created none, next to a record outside its selection
C18_Witness ==
    /\ massResp.status = "redirect"
    /\ massResp.created = 0
    /\ Cardinality(C18_Selection(massResp.form[1])) >= 2
    /\ \A t \in C18_Selection(massResp.form[1]) :
          \E i \in C18_RowsOf(staffingRows, t) : staffingRows[i].charge = massResp.form[1].charge
    /\ \E i \in DOMAIN staffingRows : C18_Key(staffingRows[i]) \notin C18_Selection(massResp.form[1])

(***************************************************************************)
(* Properties of create_client_bill_from_timesheet (SpecCreateBill).       *)
(***************************************************************************)
\* The timesheets of the call with month <= working_date < nextMonth(month)
C19_Timesheets(call) ==
    {t \in call.timesheets : /\ toordinal(call.month) <= toordinal(t.date)
                             /\ toordinal(t.date) < toordinal(nextMonth(call.month))}

C19_DetailsOf(rows, bill_id) == {i \in DOMAIN rows : rows[i].bill = bill_id}

\* An amount that is not set counts for nothing
C19_Amount(x) == IF x = None THEN 0 ELSE x[1]

\* C19: create_client_bill_from_timesheet creates one bill on the mission's
\* lead, with exactly one detail per consultant who has timesheets of the
\* mission with month <= working_date < nextMonth(month); its quantity is the
\* sum of the consultant's charges in that interval, its unit price the
\* consultant's rate on the mission; the bill is saved once before it has
\* details and once more after the last detail is saved, and the amount of the
\* returned bill is that of all its details.
C19_BillFromTimesheet ==
    [][(~createResp.called /\ createResp'.called) =>
        LET call == createResp'
            mine == C19_DetailsOf(billDetails', call.bill)
            ts == C19_Timesheets(call)
        IN  /\ Len(clientBills') = Len(clientBills) + 1
            /\ call.bill = Len(clientBills')
            /\ call.returned = clientBills'[call.bill]
            /\ call.returned.lead = call.mission.lead
            /\ \A c \in {t.consultant : t \in ts} :
                  /\ Cardinality({i \in mine : billDetails'[i].consultant = c}) = 1
                  /\ \A i \in mine :
                        billDetails'[i].consultant = c =>
                            /\ billDetails'[i].quantity
                                   = SumOver({t \in ts : t.consultant = c}, [t \in ts |-> t.charge])
                            /\ billDetails'[i].unit_price = call.rates[c][1]
            /\ \A i \in mine : billDetails'[i].consultant \in {t.consultant : t \in ts}
            /\ call.saves = <<0, Cardinality(mine)>>
            /\ C19_Amount(call.returned.amount)
                   = SumOver(mine, [i \in mine |-> C19_Amount(billDetails'[i].amount)])
    ]_vars

\* A bill was created next to an older one, with a detail for each of two
\* consultants, from timesheets of which one is outside the month
C19_Witness ==
    /\ createResp.called
    /\ createResp.bill = 2
    /\ Cardinality(C19_DetailsOf(billDetails, createResp.bill)) = 2
    /\ createResp.saves = <<0, 2>>
    /\ createResp.returned.amount # None
    /\ createResp.returned.amount[1] > 0

\* A bill was created from timesheets of which one is outside the month
C19_WitnessOutside ==
    /\ createResp.called
    /\ Cardinality(C19_DetailsOf(billDetails, createResp.bill)) = 1
    /\ Cardinality(createResp.timesheets) = 2
    /\ Cardinality({t.consultant : t \in createResp.timesheets}) = 2

====
